---- MODULE Spec2Model ----
(***************************************************************************)
(* Meeting persistence layer: the query builder (db_func.py), the embedded *)
(* relational engine it drives through SQL text, and the aggregate mapper   *)
(* (meeting_db.py) that stores a meeting as one parent row and three       *)
(* ordered child collections.                                              *)
(*                                                                         *)
(* SQL statements are built as strings exactly as db_func.py builds them   *)
(* and are then scanned, parsed and executed by a model of the engine, so  *)
(* that what a malformed statement does is decided by the text.            *)
(***************************************************************************)
EXTENDS Integers, Sequences, FiniteSets, TLC

(***************************************************************************)
(* Python values.  None is Python's None and SQL's NULL; text values are   *)
(* drawn from sets that do not contain it.                                 *)
(***************************************************************************)
None == "<None>"

\* A predicate / column argument of db_func is None, a dict (kept as the
\* sequence of its <<key, value>> items in insertion order) or a raw string.
PyNone == [t |-> "none"]
PyDict(items) == [t |-> "dict", items |-> items]
PyStr(s) == [t |-> "str", s |-> s]
PyList(items) == [t |-> "list", items |-> items]

(***************************************************************************)
(* Characters and strings                                                  *)
(***************************************************************************)
LowerAlphabet == "abcdefghijklmnopqrstuvwxyz"
UpperAlphabet == "ABCDEFGHIJKLMNOPQRSTUVWXYZ"
\* the characters that occur in identifiers and values, in code-point order
Collation == "0123456789ABCDEFGHIJKLMNOPQRSTUVWXYZ_abcdefghijklmnopqrstuvwxyz"
Digits == "0123456789"

CharAt(s, i) == SubSeq(s, i, i)

RECURSIVE IndexFrom(_, _, _)
\* position of character c in s at or after i, 0 when absent
IndexFrom(s, c, i) ==
    IF i > Len(s) THEN 0
    ELSE IF CharAt(s, i) = c THEN i
    ELSE IndexFrom(s, c, i + 1)

IndexOf(s, c) == IndexFrom(s, c, 1)

\* the upper-case letter of each lower-case letter, and the converse
UpperOf ==
    [c \in {CharAt(LowerAlphabet, k) : k \in 1..Len(LowerAlphabet)} |->
        CharAt(UpperAlphabet, IndexOf(LowerAlphabet, c))]

LowerOf ==
    [c \in {CharAt(UpperAlphabet, k) : k \in 1..Len(UpperAlphabet)} |->
        CharAt(LowerAlphabet, IndexOf(UpperAlphabet, c))]

UpperChar(c) == IF c \in DOMAIN UpperOf THEN UpperOf[c] ELSE c

LowerChar(c) == IF c \in DOMAIN LowerOf THEN LowerOf[c] ELSE c

RECURSIVE MapChars(_, _)
\* the string s with every character c replaced by its image under the
\* alphabets: from[k] becomes to[k]; halves are mapped separately
MapChars(s, up) ==
    IF s = "" THEN ""
    ELSE IF Len(s) = 1 THEN (IF up THEN UpperChar(s) ELSE LowerChar(s))
    ELSE LET h == Len(s) \div 2
         IN  MapChars(SubSeq(s, 1, h), up) \o MapChars(SubSeq(s, h + 1, Len(s)), up)

\* the table and column names of the schema, in the two cases they occur in
Identifiers ==
    {"meetings", "key_points", "action_items", "decisions", "id", "created_at",
     "title", "transcript", "summary_heading", "meeting_id", "point",
     "point_order", "assignee", "task", "deadline", "item_order", "decision",
     "decision_order", "TEXT", "INTEGER"}

\* the conversions of the schema's names, computed once
UpperNames == [s \in Identifiers |-> MapChars(s, TRUE)]

LowerNames == [s \in {UpperNames[n] : n \in Identifiers} |-> MapChars(s, FALSE)]

\* str.upper()
upper(s) == IF s \in DOMAIN UpperNames THEN UpperNames[s] ELSE MapChars(s, TRUE)

\* str.lower()
lower(s) == IF s \in DOMAIN LowerNames THEN LowerNames[s] ELSE MapChars(s, FALSE)

\* s[:-k] of Python: the string without its last k characters
DropLast(s, k) == IF Len(s) <= k THEN "" ELSE SubSeq(s, 1, Len(s) - k)

RECURSIVE str(_)
\* str(n) / f"{n}" for a natural number
str(n) ==
    IF n < 10 THEN CharAt(Digits, n + 1)
    ELSE str(n \div 10) \o CharAt(Digits, (n % 10) + 1)

IsDigit(c) == IndexOf(Digits, c) # 0

RECURSIVE IsNumber(_)
IsNumber(s) ==
    /\ s # ""
    /\ IsDigit(CharAt(s, 1))
    /\ (Len(s) = 1 \/ IsNumber(Tail(s)))

RECURSIVE NumberValue(_, _)
NumberValue(s, acc) ==
    IF s = "" THEN acc
    ELSE NumberValue(Tail(s), 10 * acc + (IndexOf(Digits, CharAt(s, 1)) - 1))

RECURSIVE TextLess(_, _)
\* BINARY collation of TEXT values: byte-wise comparison
TextLess(a, b) ==
    IF b = "" THEN FALSE
    ELSE IF a = "" THEN TRUE
    ELSE LET x == IndexOf(Collation, CharAt(a, 1))
             y == IndexOf(Collation, CharAt(b, 1))
         IN  IF x # y THEN x < y ELSE TextLess(Tail(a), Tail(b))

(***************************************************************************)
(* The embedded engine: scanner                                            *)
(***************************************************************************)
Blank == {" ", "\n"}
Punct == {"(", ")", ",", ";", "=", "?", "*"}
Keywords ==
    {"SELECT", "FROM", "WHERE", "ORDER", "BY", "LIMIT", "OFFSET", "AND", "ASC",
     "DESC", "DELETE", "INSERT", "INTO", "VALUES", "CREATE", "TABLE", "NOT",
     "NULL", "UNIQUE", "PRIMARY", "FOREIGN", "REFERENCES", "UPDATE", "SET",
     "AS", "GROUP", "HAVING", "UNION", "ON", "JOIN", "INDEXED"}

IsDelim(c) == c \in Blank \/ c \in Punct

RECURSIVE DelimFrom(_, _, _)
\* position of the first blank or punctuation character of s found from i on
\* in steps of d (1 forward, -1 backward), 0 when there is none
DelimFrom(s, i, d) ==
    IF i < 1 \/ i > Len(s) THEN 0
    ELSE IF IsDelim(CharAt(s, i)) THEN i
    ELSE DelimFrom(s, i + d, d)

RECURSIVE Scan(_)
\* the tokens of statement text s: words separated by blanks, punctuation
\* characters being tokens of their own
Scan(s) ==
    IF s = "" THEN <<>>
    ELSE LET mid == (Len(s) + 1) \div 2
             fwd == DelimFrom(s, mid, 1)
             d   == IF fwd # 0 THEN fwd ELSE DelimFrom(s, mid, -1)
         IN  IF d = 0 THEN <<s>>
             ELSE Scan(SubSeq(s, 1, d - 1))
                  \o (IF CharAt(s, d) \in Punct THEN <<CharAt(s, d)>> ELSE <<>>)
                  \o Scan(SubSeq(s, d + 1, Len(s)))

\* identifiers and keywords are case-insensitive in the engine
Tokens(q) == Scan(upper(q))

Tok(t, i) == IF i >= 1 /\ i <= Len(t) THEN t[i] ELSE ""

IsIdent(w) ==
    /\ w # ""
    /\ w \notin Punct
    /\ w \notin Keywords
    /\ ~IsDigit(CharAt(w, 1))

(***************************************************************************)
(* The embedded engine: parser.  Every Parse* result carries ok and pos,   *)
(* the position of the first token after what was recognised.              *)
(***************************************************************************)
RECURSIVE ParseNames(_, _, _)
\* name {"," name}
ParseNames(t, i, acc) ==
    IF ~IsIdent(Tok(t, i)) THEN [ok |-> FALSE, pos |-> i, names |-> acc]
    ELSE IF Tok(t, i + 1) = "," THEN ParseNames(t, i + 2, Append(acc, t[i]))
    ELSE [ok |-> TRUE, pos |-> i + 1, names |-> Append(acc, t[i])]

RECURSIVE ParseConds(_, _, _)
\* name "=" "?" {"AND" name "=" "?"}
ParseConds(t, i, acc) ==
    IF ~(IsIdent(Tok(t, i)) /\ Tok(t, i + 1) = "=" /\ Tok(t, i + 2) = "?")
    THEN [ok |-> FALSE, pos |-> i, names |-> acc]
    ELSE IF Tok(t, i + 3) = "AND" THEN ParseConds(t, i + 4, Append(acc, t[i]))
    ELSE [ok |-> TRUE, pos |-> i + 3, names |-> Append(acc, t[i])]

RECURSIVE ParseTerms(_, _, _)
\* name ["ASC" | "DESC"] {"," name ["ASC" | "DESC"]}
ParseTerms(t, i, acc) ==
    IF ~IsIdent(Tok(t, i)) THEN [ok |-> FALSE, pos |-> i, terms |-> acc]
    ELSE LET dir  == Tok(t, i + 1) \in {"ASC", "DESC"}
             j    == IF dir THEN i + 2 ELSE i + 1
             term == [col |-> t[i], desc |-> Tok(t, i + 1) = "DESC"]
         IN  IF Tok(t, j) = "," THEN ParseTerms(t, j + 1, Append(acc, term))
             ELSE [ok |-> TRUE, pos |-> j, terms |-> Append(acc, term)]

RECURSIVE ParseMarks(_, _, _)
\* "?" {"," "?"}: the number of parameter marks
ParseMarks(t, i, n) ==
    IF Tok(t, i) # "?" THEN [ok |-> FALSE, pos |-> i, n |-> n]
    ELSE IF Tok(t, i + 1) = "," THEN ParseMarks(t, i + 2, n + 1)
    ELSE [ok |-> TRUE, pos |-> i + 1, n |-> n + 1]

\* ["WHERE" conds]
ParseWhere(t, i) ==
    IF Tok(t, i) = "WHERE" THEN ParseConds(t, i + 1, <<>>)
    ELSE [ok |-> TRUE, pos |-> i, names |-> <<>>]

\* ["ORDER" "BY" terms]
ParseOrderBy(t, i) ==
    IF Tok(t, i) = "ORDER"
    THEN IF Tok(t, i + 1) = "BY" THEN ParseTerms(t, i + 2, <<>>)
         ELSE [ok |-> FALSE, pos |-> i, terms |-> <<>>]
    ELSE [ok |-> TRUE, pos |-> i, terms |-> <<>>]

\* ["LIMIT" number ["OFFSET" number]]; limit -1 stands for no limit
ParseLimit(t, i) ==
    IF Tok(t, i) # "LIMIT" THEN [ok |-> TRUE, pos |-> i, limit |-> -1, offset |-> 0]
    ELSE IF ~IsNumber(Tok(t, i + 1)) THEN [ok |-> FALSE, pos |-> i, limit |-> -1, offset |-> 0]
    ELSE IF Tok(t, i + 2) # "OFFSET"
         THEN [ok |-> TRUE, pos |-> i + 2, limit |-> NumberValue(t[i + 1], 0), offset |-> 0]
    ELSE IF ~IsNumber(Tok(t, i + 3)) THEN [ok |-> FALSE, pos |-> i, limit |-> -1, offset |-> 0]
    ELSE [ok |-> TRUE, pos |-> i + 4, limit |-> NumberValue(t[i + 1], 0),
          offset |-> NumberValue(t[i + 3], 0)]

SyntaxError == [ok |-> FALSE]

\* "SELECT" ("*" | names) "FROM" table [alias] [where] [order by] [limit] ";"
\* (a table may be followed by an alias without AS)
SelectEnd(t, cols, w, o, l) ==
    IF /\ cols.ok
       /\ Tok(t, cols.pos) = "FROM"
       /\ IsIdent(Tok(t, cols.pos + 1))
       /\ w.ok /\ o.ok /\ l.ok
       /\ Tok(t, l.pos) = ";"
       /\ Len(t) = l.pos
    THEN [ok |-> TRUE, kind |-> "select", table |-> t[cols.pos + 1], cols |-> cols.names,
          where |-> w.names, order |-> o.terms, limit |-> l.limit, offset |-> l.offset]
    ELSE SyntaxError

SelectLimit(t, cols, w, o) == SelectEnd(t, cols, w, o, ParseLimit(t, o.pos))

SelectOrderBy(t, cols, w) == SelectLimit(t, cols, w, ParseOrderBy(t, w.pos))

SelectFrom(t, cols) ==
    SelectOrderBy(t, cols,
        ParseWhere(t, IF IsIdent(Tok(t, cols.pos + 2)) THEN cols.pos + 3 ELSE cols.pos + 2))

ParseSelect(t) ==
    SelectFrom(t, IF Tok(t, 2) = "*" THEN [ok |-> TRUE, pos |-> 3, names |-> <<>>]
                  ELSE ParseNames(t, 2, <<>>))

\* "DELETE" "FROM" table [where] ";"   (an alias needs AS here)
DeleteEnd(t, w) ==
    IF /\ Tok(t, 2) = "FROM"
       /\ IsIdent(Tok(t, 3))
       /\ w.ok
       /\ Tok(t, w.pos) = ";"
       /\ Len(t) = w.pos
    THEN [ok |-> TRUE, kind |-> "delete", table |-> t[3], where |-> w.names]
    ELSE SyntaxError

ParseDelete(t) == DeleteEnd(t, ParseWhere(t, 4))

\* "INSERT" "INTO" table "(" names ")" "VALUES" "(" marks ")" ";"
InsertEnd(t, cols, marks) ==
    IF /\ Tok(t, 2) = "INTO"
       /\ IsIdent(Tok(t, 3))
       /\ Tok(t, 4) = "("
       /\ cols.ok
       /\ Tok(t, cols.pos) = ")"
       /\ Tok(t, cols.pos + 1) = "VALUES"
       /\ Tok(t, cols.pos + 2) = "("
       /\ marks.ok
       /\ Tok(t, marks.pos) = ")"
       /\ Tok(t, marks.pos + 1) = ";"
       /\ Len(t) = marks.pos + 1
       /\ marks.n = Len(cols.names)
    THEN [ok |-> TRUE, kind |-> "insert", table |-> t[3], cols |-> cols.names]
    ELSE SyntaxError

InsertValues(t, cols) == InsertEnd(t, cols, ParseMarks(t, cols.pos + 3, 0))

ParseInsert(t) == InsertValues(t, ParseNames(t, 5, <<>>))

RECURSIVE ParseConstraints(_, _, _)
\* column constraints: {"NOT" "NULL" | "UNIQUE" | "PRIMARY" "KEY"}
ParseConstraints(t, i, col) ==
    IF Tok(t, i) = "NOT" /\ Tok(t, i + 1) = "NULL"
    THEN ParseConstraints(t, i + 2, [col EXCEPT !.notnull = TRUE])
    ELSE IF Tok(t, i) = "UNIQUE"
    THEN ParseConstraints(t, i + 1, [col EXCEPT !.unique = TRUE])
    ELSE IF Tok(t, i) = "PRIMARY" /\ Tok(t, i + 1) = "KEY"
    THEN ParseConstraints(t, i + 2, [col EXCEPT !.pk = TRUE])
    ELSE [ok |-> Tok(t, i) \in {",", ")"}, pos |-> i, col |-> col]

\* name type constraints
ParseColumnDef(t, i) ==
    IF IsIdent(Tok(t, i)) /\ IsIdent(Tok(t, i + 1))
    THEN ParseConstraints(t, i + 2,
             [name |-> t[i], type |-> t[i + 1], notnull |-> FALSE,
              unique |-> FALSE, pk |-> FALSE])
    ELSE [ok |-> FALSE, pos |-> i]

\* "FOREIGN" "KEY" "(" name ")" "REFERENCES" name "(" name ")"
ParseForeignKey(t, i) ==
    IF /\ Tok(t, i) = "FOREIGN" /\ Tok(t, i + 1) = "KEY" /\ Tok(t, i + 2) = "("
       /\ IsIdent(Tok(t, i + 3)) /\ Tok(t, i + 4) = ")"
       /\ Tok(t, i + 5) = "REFERENCES" /\ IsIdent(Tok(t, i + 6))
       /\ Tok(t, i + 7) = "(" /\ IsIdent(Tok(t, i + 8)) /\ Tok(t, i + 9) = ")"
    THEN [ok |-> TRUE, pos |-> i + 10,
          fk |-> [col |-> t[i + 3], ref |-> t[i + 6], refcol |-> t[i + 8]]]
    ELSE [ok |-> FALSE, pos |-> i]

RECURSIVE ParseTableItems(_, _, _, _)
RECURSIVE TableItem(_, _, _, _, _)
\* column definitions, then table constraints, separated by ","
ParseTableItems(t, i, cols, fks) ==
    TableItem(t, i, cols, fks,
              IF Tok(t, i) = "FOREIGN" THEN ParseForeignKey(t, i) ELSE ParseColumnDef(t, i))

\* the item at i has been parsed: it is added, and the next is parsed
TableItem(t, i, cols, fks, item) ==
    IF ~item.ok \/ (Tok(t, i) # "FOREIGN" /\ fks # <<>>)
    THEN [ok |-> FALSE, pos |-> i, cols |-> cols, fks |-> fks]
    ELSE IF Tok(t, i) = "FOREIGN"
         THEN IF Tok(t, item.pos) = ","
              THEN ParseTableItems(t, item.pos + 1, cols, Append(fks, item.fk))
              ELSE [ok |-> TRUE, pos |-> item.pos, cols |-> cols, fks |-> Append(fks, item.fk)]
         ELSE IF Tok(t, item.pos) = ","
              THEN ParseTableItems(t, item.pos + 1, Append(cols, item.col), fks)
              ELSE [ok |-> TRUE, pos |-> item.pos, cols |-> Append(cols, item.col), fks |-> fks]

CreateEnd(t, items) ==
    IF /\ Tok(t, 2) = "TABLE"
       /\ IsIdent(Tok(t, 3))
       /\ Tok(t, 4) = "("
       /\ items.ok
       /\ Tok(t, items.pos) = ")"
       /\ Tok(t, items.pos + 1) = ";"
       /\ Len(t) = items.pos + 1
    THEN [ok |-> TRUE, kind |-> "create", table |-> t[3], cols |-> items.cols,
          fks |-> items.fks]
    ELSE SyntaxError

\* "CREATE" "TABLE" name "(" items ")" ";"
ParseCreate(t) == CreateEnd(t, ParseTableItems(t, 5, <<>>, <<>>))

ParseTokens(t) ==
    CASE Tok(t, 1) = "SELECT" -> ParseSelect(t)
      [] Tok(t, 1) = "DELETE" -> ParseDelete(t)
      [] Tok(t, 1) = "INSERT" -> ParseInsert(t)
      [] Tok(t, 1) = "CREATE" -> ParseCreate(t)
      [] OTHER -> SyntaxError

Parse(q) == ParseTokens(Tokens(q))

(***************************************************************************)
(* The embedded engine: execution.  A database maps the name of each table *)
(* to its column definitions and to its rows in rowid order; a row maps    *)
(* each column name to a value.  Foreign keys are recorded and, as in the  *)
(* engine's default configuration, not enforced.                           *)
(***************************************************************************)
\* NULL in a column of type INTEGER (integers and text are never compared)
NullInteger == 0 - 1

Range(f) == {f[i] : i \in DOMAIN f}

ColNames(tbl) == {tbl.cols[i].name : i \in DOMAIN tbl.cols}

ColDef(tbl, c) == CHOOSE d \in Range(tbl.cols) : d.name = c

NullOf(tbl, c) == IF ColDef(tbl, c).type = "INTEGER" THEN NullInteger ELSE None

IsNull(tbl, c, v) == v = NullOf(tbl, c)

\* what a statement does: an error kind ("" when none), the database after
\* it, the rows it returns and the number of rows it changed
Raised(db, kind) == [err |-> kind, db |-> db, rows |-> <<>>, rowcount |-> 0 - 1]
Done(db, rows, n) == [err |-> "", db |-> db, rows |-> rows, rowcount |-> n]

\* WHERE c1 = ? AND c2 = ? ...: NULL equals nothing
Matches(tbl, row, cols, params) ==
    \A i \in DOMAIN cols :
        /\ ~IsNull(tbl, cols[i], params[i])
        /\ row[cols[i]] = params[i]

RECURSIVE Filter(_, _, _, _, _)
\* the rows of a sequence that match (keep = TRUE) or do not (keep = FALSE)
Filter(tbl, rows, cols, params, keep) ==
    IF rows = <<>> THEN <<>>
    ELSE LET rest == Filter(tbl, Tail(rows), cols, params, keep)
         IN  IF Matches(tbl, Head(rows), cols, params) = keep
             THEN <<Head(rows)>> \o rest
             ELSE rest

\* NULL sorts before every value; integers by value, text byte-wise
ValueLess(tbl, c, a, b) ==
    IF IsNull(tbl, c, a) THEN ~IsNull(tbl, c, b)
    ELSE IF IsNull(tbl, c, b) THEN FALSE
    ELSE IF ColDef(tbl, c).type = "INTEGER" THEN a < b
    ELSE TextLess(a, b)

RECURSIVE BeforeAscending(_, _, _, _)
\* every term taken as ascending
BeforeAscending(tbl, a, b, terms) ==
    IF terms = <<>> THEN FALSE
    ELSE LET c == Head(terms).col
         IN  IF a[c] = b[c] THEN BeforeAscending(tbl, a, b, Tail(terms))
             ELSE ValueLess(tbl, c, a[c], b[c])

RECURSIVE Before(_, _, _, _)
\* row a sorts strictly before row b under the ORDER BY terms
Before(tbl, a, b, terms) ==
    IF terms = <<>> THEN FALSE
    ELSE LET c == Head(terms).col
         IN  IF a[c] = b[c] THEN Before(tbl, a, b, Tail(terms))
             ELSE IF Head(terms).desc THEN ValueLess(tbl, c, b[c], a[c])
             ELSE ValueLess(tbl, c, a[c], b[c])

RECURSIVE Place(_, _, _, _)
\* sorted with row r put before the first row that r sorts before
Place(tbl, sorted, r, terms) ==
    IF sorted = <<>> THEN <<r>>
    ELSE IF Before(tbl, r, Head(sorted), terms) THEN <<r>> \o sorted
    ELSE <<Head(sorted)>> \o Place(tbl, Tail(sorted), r, terms)

RECURSIVE SortRows(_, _, _, _)
\* ORDER BY: the engine's sort keeps rows with equal keys in scan order
SortRows(tbl, rows, terms, acc) ==
    IF rows = <<>> THEN acc
    ELSE SortRows(tbl, Tail(rows), terms, Place(tbl, acc, Head(rows), terms))

\* LIMIT / OFFSET
Page(rows, limit, offset) ==
    LET last == IF limit < 0 \/ offset + limit > Len(rows) THEN Len(rows)
                ELSE offset + limit
    IN  SubSeq(rows, offset + 1, last)

Project(row, cols) ==
    IF cols = <<>> THEN row ELSE [c \in Range(cols) |-> row[c]]

ExecSelect(db, ast, params) ==
    IF ast.table \notin DOMAIN db THEN Raised(db, "OperationalError")
    ELSE LET tbl  == db[ast.table]
             used == Range(ast.cols) \cup Range(ast.where)
                     \cup {ast.order[i].col : i \in DOMAIN ast.order}
         IN  IF ~(used \subseteq ColNames(tbl)) THEN Raised(db, "OperationalError")
             ELSE IF Len(params) # Len(ast.where) THEN Raised(db, "ProgrammingError")
             ELSE LET hit    == Filter(tbl, tbl.rows, ast.where, params, TRUE)
                      sorted == IF ast.order = <<>> THEN hit
                                ELSE SortRows(tbl, hit, ast.order, <<>>)
                      page   == Page(sorted, ast.limit, ast.offset)
                  IN  Done(db, [i \in DOMAIN page |-> Project(page[i], ast.cols)], 0 - 1)

\* a delete that takes every row, whatever the WHERE clause
ExecDeleteAll(db, ast, params) ==
    IF ast.table \notin DOMAIN db THEN Raised(db, "OperationalError")
    ELSE Done([db EXCEPT ![ast.table].rows = <<>>], <<>>, Len(db[ast.table].rows))

ExecDelete(db, ast, params) ==
    IF ast.table \notin DOMAIN db THEN Raised(db, "OperationalError")
    ELSE LET tbl == db[ast.table]
         IN  IF ~(Range(ast.where) \subseteq ColNames(tbl))
             THEN Raised(db, "OperationalError")
             ELSE IF Len(params) # Len(ast.where) THEN Raised(db, "ProgrammingError")
             ELSE LET kept == Filter(tbl, tbl.rows, ast.where, params, FALSE)
                  IN  Done([db EXCEPT ![ast.table].rows = kept], <<>>,
                           Len(tbl.rows) - Len(kept))

\* the integer primary key of a table, if it has one: it names the rowid
RowidColumn(tbl) ==
    LET pks == {d \in Range(tbl.cols) : d.pk /\ d.type = "INTEGER"}
    IN  IF pks = {} THEN None ELSE (CHOOSE d \in pks : TRUE).name

MaxOf(S) == IF S = {} THEN 0 ELSE CHOOSE m \in S : \A k \in S : k <= m

ExecInsert(db, ast, params) ==
    IF ast.table \notin DOMAIN db THEN Raised(db, "OperationalError")
    ELSE LET tbl   == db[ast.table]
             given == Range(ast.cols)
             pos(c) == CHOOSE i \in DOMAIN ast.cols : ast.cols[i] = c
             alias == RowidColumn(tbl)
             raw   == [c \in ColNames(tbl) |->
                          IF c \in given THEN params[pos(c)] ELSE NullOf(tbl, c)]
             \* a NULL rowid is replaced by one more than the largest in use
             row   == [c \in ColNames(tbl) |->
                          IF c = alias /\ IsNull(tbl, c, raw[c])
                          THEN MaxOf({r[c] : r \in Range(tbl.rows)}) + 1
                          ELSE raw[c]]
             nulls == \E d \in Range(tbl.cols) : d.notnull /\ IsNull(tbl, d.name, row[d.name])
             dups  == \E d \in Range(tbl.cols) :
                          /\ d.pk \/ d.unique
                          /\ ~IsNull(tbl, d.name, row[d.name])
                          /\ \E r \in Range(tbl.rows) : r[d.name] = row[d.name]
             below == IF alias = None THEN tbl.rows
                      ELSE SelectSeq(tbl.rows, LAMBDA r : r[alias] < row[alias])
             above == IF alias = None THEN <<>>
                      ELSE SelectSeq(tbl.rows, LAMBDA r : r[alias] > row[alias])
         IN  IF ~(given \subseteq ColNames(tbl)) \/ Len(ast.cols) # Cardinality(given)
             THEN Raised(db, "OperationalError")
             ELSE IF Len(params) # Len(ast.cols) THEN Raised(db, "ProgrammingError")
             ELSE IF nulls \/ dups THEN Raised(db, "IntegrityError")
             ELSE Done([db EXCEPT ![ast.table].rows = below \o <<row>> \o above], <<>>, 1)

ExecCreate(db, ast) ==
    LET names == {ast.cols[i].name : i \in DOMAIN ast.cols}
    IN  IF \/ ast.table \in DOMAIN db
           \/ Cardinality(names) # Len(ast.cols)
           \/ Cardinality({i \in DOMAIN ast.cols : ast.cols[i].pk}) > 1
           \/ \E i \in DOMAIN ast.fks : ast.fks[i].col \notin names
        THEN Raised(db, "OperationalError")
        ELSE Done([n \in DOMAIN db \cup {ast.table} |->
                      IF n = ast.table
                      THEN [cols |-> ast.cols, fks |-> ast.fks, rows |-> <<>>]
                      ELSE db[n]],
                  <<>>, 0 - 1)

\* the statement texts the mapper sends, and those of the direct calls of
\* the query builder
MapperStatements ==
    {"INSERT INTO MEETINGS (ID ,CREATED_AT ,TITLE ,TRANSCRIPT ,SUMMARY_HEADING ) VALUES (?,?,?,?,?);",
     "INSERT INTO KEY_POINTS (MEETING_ID ,POINT ,POINT_ORDER ) VALUES (?,?,?);",
     "INSERT INTO ACTION_ITEMS (MEETING_ID ,ASSIGNEE ,TASK ,DEADLINE ,ITEM_ORDER ) VALUES (?,?,?,?,?);",
     "INSERT INTO DECISIONS (MEETING_ID ,DECISION ,DECISION_ORDER ) VALUES (?,?,?);",
     "SELECT * FROM MEETINGS;",
     "SELECT * FROM MEETINGS WHERE ID = ?;",
     "SELECT * FROM KEY_POINTS WHERE MEETING_ID = ? ORDER BY POINT_ORDER;",
     "SELECT * FROM ACTION_ITEMS WHERE MEETING_ID = ? ORDER BY ITEM_ORDER;",
     "SELECT * FROM DECISIONS WHERE MEETING_ID = ? ORDER BY DECISION_ORDER;",
     "SELECT * FROM MEETINGS ORDER BY CREATED_AT DESC;",
     "DELETE FROM KEY_POINTS WHERE MEETING_ID = ?;",
     "DELETE FROM ACTION_ITEMS WHERE MEETING_ID = ?;",
     "DELETE FROM DECISIONS WHERE MEETING_ID = ?;",
     "DELETE FROM MEETINGS WHERE ID = ?;",
     "CREATE TABLE MEETINGS(ID TEXT NOT NULL UNIQUE PRIMARY KEY,\nCREATED_AT TEXT NOT NULL,\nTITLE TEXT NOT NULL,\nTRANSCRIPT TEXT ,\nSUMMARY_HEADING TEXT \n);",
     "CREATE TABLE KEY_POINTS(ID INTEGER NOT NULL UNIQUE PRIMARY KEY,\nMEETING_ID TEXT NOT NULL,\nPOINT TEXT NOT NULL,\nPOINT_ORDER INTEGER NOT NULL,\nFOREIGN KEY (MEETING_ID) REFERENCES MEETINGS(MEETING_ID)\n);",
     "CREATE TABLE ACTION_ITEMS(ID INTEGER NOT NULL UNIQUE PRIMARY KEY,\nMEETING_ID TEXT NOT NULL,\nASSIGNEE TEXT ,\nTASK TEXT NOT NULL,\nDEADLINE TEXT ,\nITEM_ORDER INTEGER NOT NULL,\nFOREIGN KEY (MEETING_ID) REFERENCES MEETINGS(MEETING_ID)\n);",
     "CREATE TABLE DECISIONS(ID INTEGER NOT NULL UNIQUE PRIMARY KEY,\nMEETING_ID TEXT NOT NULL,\nDECISION TEXT NOT NULL,\nDECISION_ORDER INTEGER NOT NULL,\nFOREIGN KEY (MEETING_ID) REFERENCES MEETINGS(MEETING_ID)\n);",
     "INSERT INTO DECISIONS (ID ,MEETING_ID ,DECISION ,DECISION_ORDER ) VALUES (?,?,?,?);",
     "SELECT * FROM DECISIONS;",
     "SELECT * FROM DECISIONS W;",
     "SELECT * FROM DECISIONS WHERE MEETING_ID = ?;",
     "SELECT * FROM DECISIONS ORDER BY DECISION DESC;",
     "SELECT * FROM DECISIONS W ORDER BY DECISION DESC;",
     "SELECT * FROM DECISIONS WHERE MEETING_ID = ? ORDER BY DECISION DESC;",
     "DELETE FROM DECISIONS;",
     "DELETE FROM DECISIONS W;"}
    \cup {"SELECT * FROM MEETINGS ORDER BY CREATED_AT DESC LIMIT " \o str(k)
              \o " OFFSET " \o str(j) \o ";" : k \in 0 .. 3, j \in 0 .. 3}

\* the statement cache of the connection: a text is parsed once
StatementCache == [q \in MapperStatements |-> Parse(q)]

\* the cached statement of a text, and what parsing gives for another
Cached(cache, q, parsed) == IF q \in DOMAIN cache THEN cache[q] ELSE parsed

Prepare(q) == Cached(StatementCache, q, Parse(q))

\* the statement is run
Step(db, ast, params) ==
    IF ~ast.ok THEN Raised(db, "OperationalError")
    ELSE CASE ast.kind = "select" -> ExecSelect(db, ast, params)
           [] ast.kind = "delete" -> ExecDelete(db, ast, params)
           [] ast.kind = "insert" -> ExecInsert(db, ast, params)
           [] ast.kind = "create" ->
                IF params = <<>> THEN ExecCreate(db, ast)
                ELSE Raised(db, "ProgrammingError")

\* cursor.execute(q, params)
Execute(db, q, params) == Step(db, Prepare(q), params)

(***************************************************************************)
(* db_func.py: the query builder.  Each function builds the statement text *)
(* and hands it to the engine; an engine error is raised to the caller.    *)
(***************************************************************************)
HasKey(items, k) == \E i \in DOMAIN items : items[i][1] = k

\* d[k] of a dict kept as the sequence of its items
Get(items, k) == items[CHOOSE i \in DOMAIN items : items[i][1] = k][2]

\* d.get(k, default)
GetOr(items, k, default) == IF HasKey(items, k) THEN Get(items, k) ELSE default

RECURSIVE ColumnLinesWithoutKey(_, _)
\* the column lines with the primary key written like any other column
ColumnLinesWithoutKey(spec, i) ==
    IF i > Len(spec) THEN ""
    ELSE LET col       == spec[i][1]
             type_list == spec[i][2]
         IN  IF col = "Primary Key" \/ col = "Foreign Key"
             THEN ColumnLinesWithoutKey(spec, i + 1)
             ELSE upper(col) \o " " \o upper(type_list[1]) \o " "
                  \o (IF Len(type_list) > 1 THEN type_list[2] \o ",\n" ELSE ",\n")
                  \o ColumnLinesWithoutKey(spec, i + 1)

RECURSIVE ColumnLines(_, _)
\* create_table, first loop: one line per column of the spec
ColumnLines(spec, i) ==
    IF i > Len(spec) THEN ""
    ELSE LET col       == spec[i][1]
             type_list == spec[i][2]
         IN  IF col = "Primary Key" \/ col = "Foreign Key" THEN ColumnLines(spec, i + 1)
             ELSE upper(col) \o " " \o upper(type_list[1]) \o " "
                  \o (IF HasKey(spec, "Primary Key") /\ Get(spec, "Primary Key") = col
                      THEN "NOT NULL UNIQUE PRIMARY KEY,\n"
                      ELSE IF Len(type_list) > 1 THEN type_list[2] \o ",\n"
                      ELSE ",\n")
                  \o ColumnLines(spec, i + 1)

RECURSIVE ForeignKeyLines(_, _)
\* create_table, second loop: one line per foreign key of the spec
ForeignKeyLines(fks, i) ==
    IF i > Len(fks) THEN ""
    ELSE "FOREIGN KEY (" \o upper(fks[i][1]) \o ") REFERENCES " \o upper(fks[i][2])
         \o "(" \o upper(fks[i][1]) \o "),\n" \o ForeignKeyLines(fks, i + 1)

create_table(conn, spec, name) ==
    LET f_string == ColumnLines(spec, 1)
                    \o (IF HasKey(spec, "Foreign Key")
                        THEN ForeignKeyLines(Get(spec, "Foreign Key"), 1)
                        ELSE "")
        query == "CREATE TABLE " \o upper(name) \o "(" \o DropLast(f_string, 2) \o "\n" \o ");"
    IN  Execute(conn, query, <<>>)

RECURSIVE InsertColumns(_, _)
InsertColumns(cmd_dict, i) ==
    IF i > Len(cmd_dict) THEN ""
    ELSE upper(cmd_dict[i][1]) \o " ," \o InsertColumns(cmd_dict, i + 1)

RECURSIVE InsertMarks(_, _)
InsertMarks(cmd_dict, i) ==
    IF i > Len(cmd_dict) THEN "" ELSE "?," \o InsertMarks(cmd_dict, i + 1)

\* single_insert without conn.commit(): the row is not kept
single_insert_uncommitted(conn, cmd_dict, name) ==
    [Execute(conn, "INSERT INTO " \o upper(name) \o " ("
                       \o DropLast(InsertColumns(cmd_dict, 1), 1) \o ") VALUES ("
                       \o DropLast(InsertMarks(cmd_dict, 1), 1) \o ");",
             [i \in DOMAIN cmd_dict |-> cmd_dict[i][2]])
     EXCEPT !.db = conn]

single_insert(conn, cmd_dict, name) ==
    LET col_str  == DropLast(InsertColumns(cmd_dict, 1), 1)
        val_str  == DropLast(InsertMarks(cmd_dict, 1), 1)
        val_list == [i \in DOMAIN cmd_dict |-> cmd_dict[i][2]]
        query    == "INSERT INTO " \o upper(name) \o " (" \o col_str \o ") VALUES ("
                    \o val_str \o ");"
    IN  Execute(conn, query, val_list)

RECURSIVE WhereTerms(_, _)
\* "K = ? AND " per item of a predicate dict
WhereTerms(items, i) ==
    IF i > Len(items) THEN ""
    ELSE upper(items[i][1]) \o " = ? AND " \o WhereTerms(items, i + 1)

\* a statement without WHERE part
NoWhereClause(where_clause) == ""

\* the WHERE part with nothing cut from its end
WhereClauseUncut(where_clause) ==
    IF where_clause.t = "none" THEN ""
    ELSE IF where_clause.t = "dict"
         THEN " WHERE " \o WhereTerms(where_clause.items, 1)
         ELSE " WHERE " \o where_clause.s

\* the WHERE part select, update and delete append to the statement
WhereClause(where_clause) ==
    IF where_clause.t = "none" THEN ""
    ELSE IF where_clause.t = "dict"
         THEN DropLast(" WHERE " \o WhereTerms(where_clause.items, 1), 5)
         ELSE " WHERE " \o where_clause.s

WhereValues(where_clause) ==
    IF where_clause.t = "dict"
    THEN [i \in DOMAIN where_clause.items |-> where_clause.items[i][2]]
    ELSE <<>>

RECURSIVE CommaList(_, _)
\* "C," per name
CommaList(names, i) ==
    IF i > Len(names) THEN "" ELSE upper(names[i]) \o "," \o CommaList(names, i + 1)

select(conn, col_list, where_clause, order_by, name) ==
    LET cols  == IF col_list.t = "none" \/ Len(col_list.items) = 0 THEN "*"
                 ELSE DropLast(CommaList(col_list.items, 1), 1)
        order == IF order_by.t = "none" THEN ""
                 ELSE " ORDER BY "
                      \o (IF order_by.t = "list"
                          THEN DropLast(CommaList(order_by.items, 1), 1)
                          ELSE upper(order_by.s))
        q     == "SELECT " \o cols \o " FROM " \o upper(name)
                 \o WhereClause(where_clause) \o order \o ";"
    IN  Execute(conn, q, WhereValues(where_clause))

delete(conn, cmd_dict, name) ==
    LET q == "DELETE FROM " \o upper(name) \o WhereClause(cmd_dict) \o ";"
    IN  Execute(conn, q, WhereValues(cmd_dict))

(***************************************************************************)
(* meeting_db.py: MeetingDatabase, the aggregate mapper                    *)
(***************************************************************************)
\* the meetings table without its primary key
meetings_spec_without_key ==
    << <<"id", <<"TEXT", "NOT NULL">> >>,
       <<"created_at", <<"TEXT", "NOT NULL">> >>,
       <<"title", <<"TEXT", "NOT NULL">> >>,
       <<"transcript", <<"TEXT">> >>,
       <<"summary_heading", <<"TEXT">> >> >>

meetings_spec ==
    << <<"id", <<"TEXT", "NOT NULL">> >>,
       <<"created_at", <<"TEXT", "NOT NULL">> >>,
       <<"title", <<"TEXT", "NOT NULL">> >>,
       <<"transcript", <<"TEXT">> >>,
       <<"summary_heading", <<"TEXT">> >>,
       <<"Primary Key", "id">> >>

key_points_spec ==
    << <<"id", <<"INTEGER", "NOT NULL">> >>,
       <<"meeting_id", <<"TEXT", "NOT NULL">> >>,
       <<"point", <<"TEXT", "NOT NULL">> >>,
       <<"point_order", <<"INTEGER", "NOT NULL">> >>,
       <<"Primary Key", "id">>,
       <<"Foreign Key", << <<"meeting_id", "meetings">> >> >> >>

action_items_spec ==
    << <<"id", <<"INTEGER", "NOT NULL">> >>,
       <<"meeting_id", <<"TEXT", "NOT NULL">> >>,
       <<"assignee", <<"TEXT">> >>,
       <<"task", <<"TEXT", "NOT NULL">> >>,
       <<"deadline", <<"TEXT">> >>,
       <<"item_order", <<"INTEGER", "NOT NULL">> >>,
       <<"Primary Key", "id">>,
       <<"Foreign Key", << <<"meeting_id", "meetings">> >> >> >>

decisions_spec ==
    << <<"id", <<"INTEGER", "NOT NULL">> >>,
       <<"meeting_id", <<"TEXT", "NOT NULL">> >>,
       <<"decision", <<"TEXT", "NOT NULL">> >>,
       <<"decision_order", <<"INTEGER", "NOT NULL">> >>,
       <<"Primary Key", "id">>,
       <<"Foreign Key", << <<"meeting_id", "meetings">> >> >> >>

RECURSIVE RunCreates(_, _, _)
\* the create_table calls of a list, in order, up to the first that raises
RunCreates(conn, todo, i) ==
    IF i > Len(todo) THEN [err |-> "", db |-> conn]
    ELSE LET r == create_table(conn, todo[i][1], todo[i][2])
         IN  IF r.err # "" THEN [err |-> r.err, db |-> r.db]
             ELSE RunCreates(r.db, todo, i + 1)

_create_tables(conn) ==
    RunCreates(conn,
               << <<meetings_spec, "meetings">>,
                  <<key_points_spec, "key_points">>,
                  <<action_items_spec, "action_items">>,
                  <<decisions_spec, "decisions">> >>,
               1)

\* the tables are created without the probe
_init_schema_unprobed(conn) == _create_tables(conn)

_init_schema(conn) ==
    IF select(conn, PyList(<<>>), PyNone, PyNone, "meetings").err # ""
    THEN _create_tables(conn)
    ELSE [err |-> "", db |-> conn]

\* a database file without tables
EmptyDatabase == [n \in {} |-> <<>>]

\* MeetingDatabase(db_path): connect, then _init_schema
MeetingDatabase(file) == _init_schema(file)

\* enumerate(items, 1): the indices counted from one
enumerate_from_one(items) == [i \in DOMAIN items |-> <<i, items[i]>>]

\* enumerate(items): the pairs <<index, element>>, indices counted from zero
enumerate(items) == [i \in DOMAIN items |-> <<i - 1, items[i]>>]

\* save_meeting: the single_insert calls it makes, in order
SaveStatements(a) ==
    <<[name |-> "meetings",
       data |-> << <<"id", a.meeting_id>>,
                   <<"created_at", a.created_at>>,
                   <<"title", a.title>>,
                   <<"transcript", a.transcript>>,
                   <<"summary_heading", a.summary_heading>> >>]>>
    \o [n \in DOMAIN a.key_points |->
           LET i     == enumerate(a.key_points)[n][1]
               point == enumerate(a.key_points)[n][2]
           IN  [name |-> "key_points",
                data |-> << <<"meeting_id", a.meeting_id>>,
                            <<"point", point>>,
                            <<"point_order", i>> >>]]
    \o [n \in DOMAIN a.action_items |->
           LET i    == enumerate(a.action_items)[n][1]
               item == enumerate(a.action_items)[n][2]
           IN  [name |-> "action_items",
                data |-> << <<"meeting_id", a.meeting_id>>,
                            <<"assignee", GetOr(item, "assignee", "Unassigned")>>,
                            <<"task", GetOr(item, "task", "")>>,
                            <<"deadline", GetOr(item, "deadline", None)>>,
                            <<"item_order", i>> >>]]
    \o [n \in DOMAIN a.decisions |->
           LET i        == enumerate(a.decisions)[n][1]
               decision == enumerate(a.decisions)[n][2]
           IN  [name |-> "decisions",
                data |-> << <<"meeting_id", a.meeting_id>>,
                            <<"decision", decision>>,
                            <<"decision_order", i>> >>]]

\* the deletes with the parent row deleted first
DeleteParentFirst(meeting_id) ==
    <<[name |-> "meetings", where |-> PyDict(<< <<"id", meeting_id>> >>)],
      [name |-> "key_points", where |-> PyDict(<< <<"meeting_id", meeting_id>> >>)],
      [name |-> "action_items", where |-> PyDict(<< <<"meeting_id", meeting_id>> >>)],
      [name |-> "decisions", where |-> PyDict(<< <<"meeting_id", meeting_id>> >>)]>>

\* the deletes without the one of the decisions
DeleteKeepingDecisions(meeting_id) ==
    <<[name |-> "key_points", where |-> PyDict(<< <<"meeting_id", meeting_id>> >>)],
      [name |-> "action_items", where |-> PyDict(<< <<"meeting_id", meeting_id>> >>)],
      [name |-> "meetings", where |-> PyDict(<< <<"id", meeting_id>> >>)]>>

\* the deletes with the parent row deleted before the decisions
DeleteParentBeforeDecisions(meeting_id) ==
    <<[name |-> "key_points", where |-> PyDict(<< <<"meeting_id", meeting_id>> >>)],
      [name |-> "action_items", where |-> PyDict(<< <<"meeting_id", meeting_id>> >>)],
      [name |-> "meetings", where |-> PyDict(<< <<"id", meeting_id>> >>)],
      [name |-> "decisions", where |-> PyDict(<< <<"meeting_id", meeting_id>> >>)]>>

\* delete_meeting: the delete calls it makes, in order
DeleteStatements(meeting_id) ==
    <<[name |-> "key_points", where |-> PyDict(<< <<"meeting_id", meeting_id>> >>)],
      [name |-> "action_items", where |-> PyDict(<< <<"meeting_id", meeting_id>> >>)],
      [name |-> "decisions", where |-> PyDict(<< <<"meeting_id", meeting_id>> >>)],
      [name |-> "meetings", where |-> PyDict(<< <<"id", meeting_id>> >>)]>>

\* dict(row): the keys as the engine spells them
KeepKeys(row) == row

\* {k.lower(): v for k, v in dict(row).items()}
LowerKeys(row) ==
    [k \in {lower(c) : c \in DOMAIN row} |->
        row[CHOOSE c \in DOMAIN row : lower(c) = k]]

\* a value returned (Python's None as PyNone where the other values are
\* dicts), or an error raised
Returned(v) == [err |-> "", val |-> v]
Raise(kind) == [err |-> kind, val |-> None]

\* the meeting dict with the three lists read from the child rows added
Assemble(meeting, points_rows, action_rows, decision_rows) ==
    IF points_rows.err # "" THEN Raise(points_rows.err)
    ELSE IF action_rows.err # "" THEN Raise(action_rows.err)
    ELSE IF decision_rows.err # "" THEN Raise(decision_rows.err)
    ELSE Returned(
             ("decisions" :> [i \in DOMAIN decision_rows.rows |->
                                 decision_rows.rows[i]["DECISION"]])
             @@ ("action_items" :> [i \in DOMAIN action_rows.rows |->
                                       [assignee |-> action_rows.rows[i]["ASSIGNEE"],
                                        task |-> action_rows.rows[i]["TASK"],
                                        deadline |-> action_rows.rows[i]["DEADLINE"]]])
             @@ ("key_points" :> [i \in DOMAIN points_rows.rows |->
                                     points_rows.rows[i]["POINT"]])
             @@ meeting)

\* get_meeting and get_all_meetings: the children of a meetings row are
\* selected by meeting_id in the order of their position column
WithChildren(conn, row, meeting_id) ==
    Assemble(LowerKeys(row),
             select(conn, PyList(<<>>), PyDict(<< <<"meeting_id", meeting_id>> >>),
                    PyStr("point_order"), "key_points"),
             select(conn, PyList(<<>>), PyDict(<< <<"meeting_id", meeting_id>> >>),
                    PyStr("item_order"), "action_items"),
             select(conn, PyList(<<>>), PyDict(<< <<"meeting_id", meeting_id>> >>),
                    PyStr("decision_order"), "decisions"))

\* get_meeting once the meetings rows are selected
Found(conn, meeting_id, meetings) ==
    IF meetings.err # "" THEN Raise(meetings.err)
    ELSE IF meetings.rows = <<>> THEN Returned(PyNone)
    ELSE WithChildren(conn, meetings.rows[1], meeting_id)

get_meeting(conn, meeting_id) ==
    Found(conn, meeting_id,
          select(conn, PyList(<<>>), PyDict(<< <<"id", meeting_id>> >>), PyNone, "meetings"))

\* the clause with the limit alone
OrderClauseWithoutOffset(limit, offset, order_by) ==
    IF limit # NullInteger THEN order_by \o " LIMIT " \o str(limit) ELSE order_by

\* get_all_meetings: the ORDER BY clause with the pagination, limit None
\* being written NullInteger
OrderClause(limit, offset, order_by) ==
    IF limit # NullInteger
    THEN order_by \o " LIMIT " \o str(limit) \o " OFFSET " \o str(offset)
    ELSE order_by

\* the list of the meetings read, or the first error raised while reading
Collected(each) ==
    IF \E n \in DOMAIN each : each[n].err # ""
    THEN Raise(each[CHOOSE n \in DOMAIN each :
                       /\ each[n].err # ""
                       /\ \A m \in DOMAIN each : each[m].err # "" => n <= m].err)
    ELSE Returned([n \in DOMAIN each |-> each[n].val])

\* every meeting is given the children of the first
ListedWithFirstChildren(conn, meeting_rows) ==
    IF meeting_rows.err # "" THEN Raise(meeting_rows.err)
    ELSE Collected([n \in DOMAIN meeting_rows.rows |->
                       WithChildren(conn, meeting_rows.rows[n],
                                    LowerKeys(meeting_rows.rows[1])["id"])])

\* get_all_meetings once the meetings rows are selected
Listed(conn, meeting_rows) ==
    IF meeting_rows.err # "" THEN Raise(meeting_rows.err)
    ELSE Collected([n \in DOMAIN meeting_rows.rows |->
                       WithChildren(conn, meeting_rows.rows[n],
                                    LowerKeys(meeting_rows.rows[n])["id"])])

get_all_meetings(conn, limit, offset, order_by) ==
    Listed(conn, select(conn, PyList(<<>>), PyNone,
                        PyStr(OrderClause(limit, offset, order_by)), "meetings"))

\* whether there is a meeting, as a number
CountedAny(meetings) ==
    IF meetings.err # "" THEN Raise(meetings.err)
    ELSE Returned(IF meetings.rows = <<>> THEN 0 ELSE 1)

\* return len(meetings)
Counted(meetings) ==
    IF meetings.err # "" THEN Raise(meetings.err) ELSE Returned(Len(meetings.rows))

count_meetings(conn) == Counted(select(conn, PyList(<<>>), PyNone, PyNone, "meetings"))

(***************************************************************************)
(* State.  Callers run save_meeting and delete_meeting one statement at a  *)
(* time against the shared connection; every statement commits on its own. *)
(***************************************************************************)
VARIABLES
    db,      \* the database behind the connection
    frame,   \* per caller: the call in progress and its next statement
    ret,     \* per caller: the outcome of its last completed call
    saved,   \* the aggregate of the last save_meeting that returned, for each
             \* identifier of which no delete_meeting has begun since
    user     \* the User object of user.py, PyNone while none is in use

vars == <<db, frame, ret, saved, user>>

\* bounds of the explored inputs
MaxPoints == 2
MaxItems == 1
MaxDecisions == 1
\* rowids grow without limit when saves and deletes alternate: a save is
\* explored only while its child rows get rowids up to MaxRowId
MaxRowId == 2

Callers == {1, 2}
Ids == {"m1", "m2"}
Timestamps == {"t1"}
Clock == {"t2"}
Points == {"A", "B"}
\* action items: a dict with the three keys, the deadline being None
Items ==
    { << <<"assignee", "Sam">>, <<"task", "X">>, <<"deadline", None>> >> }
Decisions == {"D1"}

SeqsUpTo(S, n) == UNION {[1..k -> S] : k \in 0..n}

Idle == [op |-> "idle"]
NoCall == [op |-> "none"]

Init ==
    /\ db = MeetingDatabase(EmptyDatabase).db
    /\ frame = [c \in Callers |-> Idle]
    /\ ret = [c \in Callers |-> NoCall]
    /\ saved = [i \in {} |-> PyNone]
    /\ user = PyNone

\* sqlite3.OperationalError of a statement the engine could not run
Locked == "OperationalError: database is locked"

\* the largest rowid in use in a table
LastRowId(conn, name) == MaxOf({r["ID"] : r \in Range(conn[name].rows)})

HasParent(conn, meeting_id) ==
    \E r \in Range(conn["MEETINGS"].rows) : r["ID"] = meeting_id

ChildTables == {"KEY_POINTS", "ACTION_ITEMS", "DECISIONS"}

\* the rows of a child table that belong to a meeting, in rowid order
ChildRows(conn, name, meeting_id) ==
    SelectSeq(conn[name].rows, LAMBDA r : r["MEETING_ID"] = meeting_id)

HasChildren(conn, meeting_id) ==
    \E name \in ChildTables : ChildRows(conn, name, meeting_id) # <<>>

\* save_meeting is entered: created_at defaults to the clock's reading and
\* the parent row is inserted; the lists are the caller's
SaveBegin(c, meeting_id, created_at, now) ==
    LET head == [meeting_id |-> meeting_id, title |-> "T", transcript |-> "x",
                 summary_heading |-> "h", key_points |-> <<>>, action_items |-> <<>>,
                 decisions |-> <<>>,
                 created_at |-> IF created_at = None THEN now ELSE created_at]
        r    == single_insert(db, SaveStatements(head)[1].data, "meetings")
    IN  /\ frame[c] = Idle
        /\ db' = r.db
        /\ UNCHANGED <<saved, user>>
        /\ IF r.err # ""
           THEN /\ ret' = [ret EXCEPT ![c] = [op |-> "save_meeting",
                                             meeting_id |-> meeting_id,
                                             err |-> r.err, val |-> None]]
                /\ UNCHANGED frame
           ELSE /\ \E kp \in SeqsUpTo(Points, MaxPoints),
                      ai \in SeqsUpTo(Items, MaxItems),
                      dc \in SeqsUpTo(Decisions, MaxDecisions) :
                      LET args == [head EXCEPT !.key_points = kp, !.action_items = ai,
                                               !.decisions = dc]
                      IN  /\ LastRowId(db, "KEY_POINTS") + Len(kp) <= MaxRowId
                          /\ LastRowId(db, "ACTION_ITEMS") + Len(ai) <= MaxRowId
                          /\ LastRowId(db, "DECISIONS") + Len(dc) <= MaxRowId
                          /\ frame' = [frame EXCEPT ![c] =
                                          [op |-> "save_meeting", args |-> args, k |-> 2]]
                /\ ret' = [ret EXCEPT ![c] = NoCall]

\* the next child insert of a save_meeting in progress
SaveStep(c) ==
    /\ frame[c].op = "save_meeting"
    /\ frame[c].k <= Len(SaveStatements(frame[c].args))
    /\ LET st == SaveStatements(frame[c].args)[frame[c].k]
           r  == single_insert(db, st.data, st.name)
       IN  /\ db' = r.db
           /\ IF r.err # ""
              THEN /\ frame' = [frame EXCEPT ![c] = Idle]
                   /\ ret' = [ret EXCEPT ![c] = [op |-> "save_meeting",
                                                meeting_id |-> frame[c].args.meeting_id,
                                                err |-> r.err, val |-> None]]
              ELSE /\ frame' = [frame EXCEPT ![c].k = @ + 1]
                   /\ UNCHANGED ret
    /\ UNCHANGED <<saved, user>>

\* return meeting_id
SaveReturn(c) ==
    /\ frame[c].op = "save_meeting"
    /\ frame[c].k > Len(SaveStatements(frame[c].args))
    /\ frame' = [frame EXCEPT ![c] = Idle]
    /\ ret' = [ret EXCEPT ![c] = [op |-> "save_meeting",
                                 meeting_id |-> frame[c].args.meeting_id,
                                 err |-> "", val |-> frame[c].args.meeting_id]]
    /\ saved' = [i \in DOMAIN saved \cup {frame[c].args.meeting_id} |->
                     IF i = frame[c].args.meeting_id THEN frame[c].args ELSE saved[i]]
    /\ UNCHANGED <<db, user>>

\* delete_meeting is entered and deletes the key points.  existed, had,
\* count0 and again record what held when the call began: whether the parent
\* row existed, whether child rows existed, count_meetings(), and whether
\* the caller's previous call was a delete_meeting of the same identifier
\* that returned True.
DeleteBegin(c, meeting_id) ==
    LET st == DeleteStatements(meeting_id)[1]
        r  == delete(db, st.where, st.name)
    IN  /\ frame[c] = Idle
        /\ db' = r.db
        /\ saved' = [i \in DOMAIN saved \ {meeting_id} |-> saved[i]]
        /\ UNCHANGED user
        /\ IF r.err # ""
           THEN /\ ret' = [ret EXCEPT ![c] = [op |-> "delete_meeting",
                                             meeting_id |-> meeting_id,
                                             err |-> r.err, val |-> None]]
                /\ UNCHANGED frame
           ELSE /\ frame' = [frame EXCEPT ![c] =
                                [op |-> "delete_meeting", meeting_id |-> meeting_id,
                                 k |-> 2, deleted_count |-> 0,
                                 existed |-> HasParent(db, meeting_id),
                                 had |-> HasChildren(db, meeting_id),
                                 count0 |-> count_meetings(db).val,
                                 again |-> /\ ret[c].op = "delete_meeting"
                                           /\ ret[c].meeting_id = meeting_id
                                           /\ ret[c].err = ""
                                           /\ ret[c].val]]
                /\ ret' = [ret EXCEPT ![c] = NoCall]

\* the next delete of a delete_meeting in progress; the last one is the
\* parent's and its row count is kept
DeleteStep(c) ==
    /\ frame[c].op = "delete_meeting"
    /\ frame[c].k <= Len(DeleteStatements(frame[c].meeting_id))
    /\ LET st == DeleteStatements(frame[c].meeting_id)[frame[c].k]
           r  == delete(db, st.where, st.name)
       IN  /\ db' = r.db
           /\ IF r.err # ""
              THEN /\ frame' = [frame EXCEPT ![c] = Idle]
                   /\ ret' = [ret EXCEPT ![c] = [op |-> "delete_meeting",
                                                meeting_id |-> frame[c].meeting_id,
                                                err |-> r.err, val |-> None]]
              ELSE /\ frame' = [frame EXCEPT ![c].k = @ + 1,
                                             ![c].deleted_count =
                                                 IF st.name = "meetings" THEN r.rowcount ELSE @]
                   /\ UNCHANGED ret
    /\ UNCHANGED <<saved, user>>

\* deleted_count >= 0
NotNegative(deleted_count) == deleted_count >= 0

\* deleted_count > 0
Positive(deleted_count) == deleted_count > 0

\* return deleted_count > 0
DeleteReturn(c) ==
    /\ frame[c].op = "delete_meeting"
    /\ frame[c].k > Len(DeleteStatements(frame[c].meeting_id))
    /\ frame' = [frame EXCEPT ![c] = Idle]
    /\ ret' = [ret EXCEPT ![c] = [op |-> "delete_meeting",
                                 meeting_id |-> frame[c].meeting_id,
                                 err |-> "", val |-> Positive(frame[c].deleted_count),
                                 existed |-> frame[c].existed,
                                 again |-> frame[c].again]]
    /\ UNCHANGED <<db, saved, user>>

\* the engine fails the next statement of a call in progress (the file is
\* locked, the disk is full): the statement changes nothing and the error
\* ends the call
EngineFailure(c) ==
    /\ \/ /\ frame[c].op = "save_meeting"
          /\ frame[c].k <= Len(SaveStatements(frame[c].args))
       \/ /\ frame[c].op = "delete_meeting"
          /\ frame[c].k <= Len(DeleteStatements(frame[c].meeting_id))
    /\ frame' = [frame EXCEPT ![c] = Idle]
    /\ ret' = [ret EXCEPT ![c] = [op |-> frame[c].op,
                                 meeting_id |-> IF frame[c].op = "save_meeting"
                                                THEN frame[c].args.meeting_id
                                                ELSE frame[c].meeting_id,
                                 err |-> Locked, val |-> None]]
    /\ UNCHANGED <<db, saved, user>>

\* a single writer: caller 1 makes one call after the other
Next ==
    \/ \E i \in Ids, t \in Timestamps \cup {None}, now \in Clock : SaveBegin(1, i, t, now)
    \/ SaveStep(1)
    \/ SaveReturn(1)
    \/ \E i \in Ids : DeleteBegin(1, i)
    \/ DeleteStep(1)
    \/ DeleteReturn(1)
    \/ EngineFailure(1)

Spec == Init /\ [][Next]_vars

(***************************************************************************)
(* Properties of the aggregate mapper with a single writer                 *)
(***************************************************************************)
AtSaveReturn(c) ==
    /\ frame[c].op = "save_meeting"
    /\ frame[c].k > Len(SaveStatements(frame[c].args))

AtDeleteReturn(c) ==
    /\ frame[c].op = "delete_meeting"
    /\ frame[c].k > Len(DeleteStatements(frame[c].meeting_id))

\* the action item get_meeting builds for a saved item
ItemRead(item) ==
    [assignee |-> Get(item, "assignee"), task |-> Get(item, "task"),
     deadline |-> Get(item, "deadline")]

\* what get_meeting returned is the aggregate a, field for field
ReadsBack(got, a) ==
    /\ got.err = ""
    /\ got.val # PyNone
    /\ DOMAIN got.val = {"id", "created_at", "title", "transcript", "summary_heading",
                         "key_points", "action_items", "decisions"}
    /\ got.val["id"] = a.meeting_id
    /\ got.val["created_at"] = a.created_at
    /\ got.val["title"] = a.title
    /\ got.val["transcript"] = a.transcript
    /\ got.val["summary_heading"] = a.summary_heading
    /\ got.val["key_points"] = a.key_points
    /\ got.val["action_items"] = [i \in DOMAIN a.action_items |-> ItemRead(a.action_items[i])]
    /\ got.val["decisions"] = a.decisions

OrderColumn ==
    [KEY_POINTS |-> "POINT_ORDER", ACTION_ITEMS |-> "ITEM_ORDER",
     DECISIONS |-> "DECISION_ORDER"]

\* the positions of a meeting's rows are 0 .. n-1, each once
Dense(conn, name, meeting_id) ==
    LET rows == ChildRows(conn, name, meeting_id)
    IN  /\ {rows[k][OrderColumn[name]] : k \in DOMAIN rows} = 0 .. (Len(rows) - 1)
        /\ \A j, k \in DOMAIN rows :
              rows[j][OrderColumn[name]] = rows[k][OrderColumn[name]] => j = k

\* the row at position p of a meeting's rows, as the element it stores
ElementAt(conn, name, meeting_id, p) ==
    LET rows == ChildRows(conn, name, meeting_id)
        r    == rows[CHOOSE k \in DOMAIN rows : rows[k][OrderColumn[name]] = p]
    IN  CASE name = "KEY_POINTS" -> r["POINT"]
          [] name = "DECISIONS" -> r["DECISION"]
          [] name = "ACTION_ITEMS" ->
                [assignee |-> r["ASSIGNEE"], task |-> r["TASK"], deadline |-> r["DEADLINE"]]

\* the rows of a child table hold list, element i at position i
Holds(conn, name, meeting_id, list) ==
    /\ Len(ChildRows(conn, name, meeting_id)) = Len(list)
    /\ \A p \in 0 .. (Len(list) - 1) : ElementAt(conn, name, meeting_id, p) = list[p + 1]

NoOrphans(conn) ==
    \A name \in ChildTables : \A r \in Range(conn[name].rows) : HasParent(conn, r["MEETING_ID"])

\* C3: with a single writer, in every state, those between the statements
\* of a call and those an aborted call leaves behind included, every row of
\* key_points, action_items and decisions has a meeting_id with a row in
\* meetings; while save_meeting inserts children the parent row is there.
C3_NoOrphans ==
    /\ NoOrphans(db)
    /\ frame[1].op = "save_meeting" => HasParent(db, frame[1].args.meeting_id)

\* a delete_meeting was aborted after its first statements: the meeting has
\* lost its key points and keeps a decision, and the parent row is still there
C3_Witness ==
    /\ ret[1].op = "delete_meeting"
    /\ ret[1].err = Locked
    /\ ChildRows(db, "DECISIONS", ret[1].meeting_id) # <<>>
    /\ ChildRows(db, "KEY_POINTS", ret[1].meeting_id) = <<>>
    /\ HasParent(db, ret[1].meeting_id)
    /\ \E i \in Ids \ {ret[1].meeting_id} : HasChildren(db, i)

\* db_func.select of the rows of a child table with a meeting_id
ChildSelect(conn, name, meeting_id) ==
    select(conn, PyList(<<>>), PyDict(<< <<"meeting_id", meeting_id>> >>), PyNone, name)

\* C5: when delete_meeting(id) is about to return and after it has returned,
\* a select on key_points, action_items and decisions filtered by
\* meeting_id = id yields zero rows, whatever children the meeting had and
\* whether or not a parent row existed.
C5_DeleteRemovesChildren ==
    /\ AtDeleteReturn(1) =>
          \A name \in {"key_points", "action_items", "decisions"} :
              /\ ChildSelect(db, name, frame[1].meeting_id).err = ""
              /\ ChildSelect(db, name, frame[1].meeting_id).rows = <<>>
    /\ (ret[1].op = "delete_meeting" /\ ret[1].err = "") =>
          \A name \in {"key_points", "action_items", "decisions"} :
              /\ ChildSelect(db, name, ret[1].meeting_id).err = ""
              /\ ChildSelect(db, name, ret[1].meeting_id).rows = <<>>

\* delete_meeting of a meeting that had a parent row and child rows is about
\* to return while the other meeting keeps its child rows
C5_Witness ==
    /\ AtDeleteReturn(1)
    /\ frame[1].existed
    /\ frame[1].had
    /\ \E i \in Ids \ {frame[1].meeting_id} : ChildSelect(db, "key_points", i).rows # <<>>

\* C6: delete_meeting(id) of an identifier without parent row returns False,
\* raises no error of its own and leaves count_meetings() unchanged; of an
\* identifier with a parent row it returns True, and called again right
\* afterwards it returns False.
C6_DeleteResult ==
    /\ AtDeleteReturn(1) /\ ~frame[1].existed =>
          /\ frame[1].deleted_count = 0
          /\ count_meetings(db) = Returned(frame[1].count0)
    /\ ret[1].op = "delete_meeting" =>
          /\ ret[1].err \in {"", Locked}
          /\ ret[1].err = "" =>
                /\ ret[1].val = ret[1].existed
                /\ ret[1].again => ret[1].val = FALSE

\* a delete_meeting that returned True was followed by a delete_meeting of
\* the same identifier, which has returned, with another meeting stored
C6_Witness ==
    /\ ret[1].op = "delete_meeting"
    /\ ret[1].err = ""
    /\ ret[1].again
    /\ ~ret[1].existed
    /\ count_meetings(db).val = 1

\* C7: get_meeting(id) returns None without raising exactly when no meetings
\* row has the identifier, as for an identifier never saved and after
\* delete_meeting(id) has returned; otherwise it returns the aggregate.
C7_NotFound ==
    /\ \A i \in Ids :
          /\ get_meeting(db, i).err = ""
          /\ (get_meeting(db, i).val = PyNone) <=> ~HasParent(db, i)
          /\ HasParent(db, i) => get_meeting(db, i).val["id"] = i
    /\ (ret[1].op = "delete_meeting" /\ ret[1].err = "") =>
          get_meeting(db, ret[1].meeting_id) = Returned(PyNone)

\* delete_meeting of a stored meeting has returned True and get_meeting of it
\* returns None, while get_meeting of the other identifier returns a meeting
C7_Witness ==
    /\ ret[1].op = "delete_meeting"
    /\ ret[1].err = ""
    /\ ret[1].val = TRUE
    /\ get_meeting(db, ret[1].meeting_id).val = PyNone
    /\ \E i \in Ids : get_meeting(db, i).val # PyNone

(***************************************************************************)
(* Two callers on one identifier: caller 1 runs save_meeting once and      *)
(* caller 2 delete_meeting once, their statements interleaved in any order *)
(***************************************************************************)
SharedId == "m1"

NextConc ==
    \/ \E t \in Timestamps \cup {None}, now \in Clock :
          /\ ret[1] = NoCall
          /\ SaveBegin(1, SharedId, t, now)
    \/ SaveStep(1)
    \/ SaveReturn(1)
    \/ /\ ret[2] = NoCall
       /\ DeleteBegin(2, SharedId)
    \/ DeleteStep(2)
    \/ DeleteReturn(2)

SpecConc == Init /\ [][NextConc]_vars

BothReturned ==
    /\ frame[1] = Idle
    /\ frame[2] = Idle
    /\ ret[1].op = "save_meeting"
    /\ ret[2].op = "delete_meeting"

\* C4: once a save_meeting(id) and a delete_meeting(id) that ran concurrently
\* have both finished, no child row with meeting_id = id exists without a
\* meetings row for id.
C4_NoOrphansAfterBoth ==
    BothReturned => (HasChildren(db, SharedId) => HasParent(db, SharedId))

\* both calls have returned without error, save_meeting its identifier and
\* delete_meeting True, and child rows of the identifier are left without
\* parent row; get_meeting reports the meeting as not found
C4_Orphans ==
    /\ BothReturned
    /\ ret[1].err = ""
    /\ ret[2].err = ""
    /\ ret[2].val = TRUE
    /\ HasChildren(db, SharedId)
    /\ ~HasParent(db, SharedId)
    /\ get_meeting(db, SharedId) = Returned(PyNone)

(***************************************************************************)
(* Paginated listing: meetings are saved and the list is read in two pages *)
(***************************************************************************)
PageIds == {"m1", "m2", "m3"}
PageTimes == {"t1", "t2", "t3"}

\* the identifiers of the meetings of a list
IdsOf(meetings) == [j \in DOMAIN meetings |-> meetings[j]["id"]]

\* get_all_meetings(limit=k, offset=0) and get_all_meetings(limit=n-k,
\* offset=k), n being count_meetings()
\* the outcome of the two calls
TwoPages(k, n, first, second) ==
    IF first.err # "" \/ second.err # ""
    THEN [op |-> "get_all_meetings", k |-> k, n |-> n,
          err |-> IF first.err # "" THEN first.err ELSE second.err]
    ELSE [op |-> "get_all_meetings", k |-> k, n |-> n, err |-> "",
          first |-> IdsOf(first.val), second |-> IdsOf(second.val)]

ListPagesOf(c, k, n) ==
    /\ frame[c] = Idle
    /\ k <= n
    /\ ret' = [ret EXCEPT ![c] =
                  TwoPages(k, n, get_all_meetings(db, k, 0, "created_at DESC"),
                           get_all_meetings(db, n - k, k, "created_at DESC"))]
    /\ UNCHANGED <<db, frame, saved, user>>

ListPages(c, k) == ListPagesOf(c, k, count_meetings(db).val)

\* the limits and offsets of the calls of get_all_meetings, limit None
\* among them
Limits == {NullInteger, 1}
Offsets == {0, 1}

\* the clause get_all_meetings passes for its default order_by
DefaultOrder == "created_at DESC"

\* get_all_meetings(limit, offset)
ListMeetings(c, limit, offset) ==
    LET r == get_all_meetings(db, limit, offset, DefaultOrder)
    IN  /\ frame[c] = Idle
        /\ ret' = [ret EXCEPT ![c] = [op |-> "list", limit |-> limit,
                                     offset |-> offset, err |-> r.err, val |-> r.val]]
        /\ UNCHANGED <<db, frame, saved, user>>

\* the meetings of this specification have no children
NextPage ==
    \/ \E i \in PageIds, t \in PageTimes, now \in Clock :
          /\ SaveBegin(1, i, t, now)
          /\ frame'[1].op = "save_meeting" => Len(SaveStatements(frame'[1].args)) = 1
    \/ SaveReturn(1)
    \/ \E k \in 0 .. Cardinality(PageIds) : ListPages(1, k)
    \/ \E limit \in Limits, offset \in 0 .. Cardinality(PageIds) :
          ListMeetings(1, limit, offset)

SpecPage == Init /\ [][NextPage]_vars

\* C8: for n saved meetings, whatever their creation timestamps, and every k
\* in 0 .. n, the identifiers get_all_meetings(limit=k, offset=0) returns
\* followed by those get_all_meetings(limit=n-k, offset=k) returns are all n
\* identifiers, none of them twice.
C8_PagesPartition ==
    ret[1].op = "get_all_meetings" =>
        /\ ret[1].err = ""
        /\ LET all == ret[1].first \o ret[1].second
           IN  /\ Len(all) = ret[1].n
               /\ {all[j] : j \in DOMAIN all} = {r["ID"] : r \in Range(db["MEETINGS"].rows)}
               /\ \A i, j \in DOMAIN all : all[i] = all[j] => i = j
               /\ Len(ret[1].first) = ret[1].k

\* three meetings with the same creation timestamp are listed, one on the
\* first page and two on the second
C8_Witness ==
    /\ ret[1].op = "get_all_meetings"
    /\ ret[1].err = ""
    /\ ret[1].n = 3
    /\ ret[1].k = 1
    /\ Len(ret[1].first) = 1
    /\ Len(ret[1].second) = 2
    /\ \A r \in Range(db["MEETINGS"].rows) : r["CREATED_AT"] = "t1"

(***************************************************************************)
(* The query builder called directly on one table                          *)
(***************************************************************************)
Predicates == {PyNone, PyDict(<<>>), PyDict(<< <<"meeting_id", "m1">> >>)}
Orders == {PyNone, PyStr("decision DESC")}
Texts == {"D1", "D2"}

QBInsert(c, meeting_id, decision) ==
    LET r == single_insert(db, << <<"meeting_id", meeting_id>>, <<"decision", decision>>,
                                  <<"decision_order", 0>> >>, "decisions")
    IN  /\ frame[c] = Idle
        /\ LastRowId(db, "DECISIONS") < MaxRowId
        /\ db' = r.db
        /\ ret' = [ret EXCEPT ![c] = [op |-> "single_insert", err |-> r.err]]
        /\ UNCHANGED <<frame, saved, user>>

QBSelect(c, where_clause, order_by) ==
    LET r == select(db, PyNone, where_clause, order_by, "decisions")
    IN  /\ frame[c] = Idle
        /\ ret' = [ret EXCEPT ![c] = [op |-> "select", where_clause |-> where_clause,
                                     order_by |-> order_by, err |-> r.err, val |-> r.rows]]
        /\ UNCHANGED <<db, frame, saved, user>>

\* before is the table's content when delete is called
QBDelete(c, cmd_dict) ==
    LET r == delete(db, cmd_dict, "decisions")
    IN  /\ frame[c] = Idle
        /\ db' = r.db
        /\ ret' = [ret EXCEPT ![c] = [op |-> "delete", cmd_dict |-> cmd_dict,
                                     err |-> r.err, val |-> r.rowcount,
                                     before |-> db["DECISIONS"].rows]]
        /\ UNCHANGED <<frame, saved, user>>

\* the rows handed to single_insert directly: two meetings rows with the same
\* identifier, a row for each child table whose meeting_id is in no meetings
\* row unless that row was inserted first, and a decisions row with its id
Rows ==
    << [name |-> "meetings",
        data |-> << <<"id", "m1">>, <<"created_at", "t1">>, <<"title", "T">>,
                    <<"transcript", "x">>, <<"summary_heading", "h">> >>],
       [name |-> "meetings",
        data |-> << <<"id", "m1">>, <<"created_at", "t2">>, <<"title", "T2">>,
                    <<"transcript", "x">>, <<"summary_heading", "h">> >>],
       [name |-> "key_points",
        data |-> << <<"meeting_id", "m1">>, <<"point", "A">>, <<"point_order", 0>> >>],
       [name |-> "action_items",
        data |-> << <<"meeting_id", "m1">>, <<"assignee", "Sam">>, <<"task", "X">>,
                    <<"deadline", None>>, <<"item_order", 0>> >>],
       [name |-> "decisions",
        data |-> << <<"id", 1>>, <<"meeting_id", "m2">>, <<"decision", "D1">>,
                    <<"decision_order", 0>> >>] >>

\* single_insert called directly; before is the database when it is called
InsertRow(c, cmd_dict, name) ==
    LET r == single_insert(db, cmd_dict, name)
    IN  /\ frame[c] = Idle
        /\ upper(name) \in DOMAIN db => Len(db[upper(name)].rows) < MaxRowId
        /\ db' = r.db
        /\ ret' = [ret EXCEPT ![c] = [op |-> "insert_row", cmd_dict |-> cmd_dict,
                                     name |-> name, err |-> r.err, before |-> db]]
        /\ UNCHANGED <<frame, saved, user>>

NextQB ==
    \/ \E i \in Ids, d \in Texts : QBInsert(1, i, d)
    \/ \E w \in Predicates, o \in Orders : QBSelect(1, w, o)
    \/ \E w \in Predicates : QBDelete(1, w)
    \/ \E n \in DOMAIN Rows : InsertRow(1, Rows[n].data, Rows[n].name)

SpecQB == Init /\ [][NextQB]_vars

\* C9: delete called with the empty mapping {} as predicate raises nothing,
\* deletes all rows of the table and returns their number, as delete with
\* None does.
C9_EmptyMappingDeletesAll ==
    (ret[1].op = "delete" /\ ret[1].cmd_dict = PyDict(<<>>)) =>
        /\ ret[1].err = ""
        /\ ret[1].val = Len(ret[1].before)
        /\ db["DECISIONS"].rows = <<>>
        /\ delete(ret[1].before, PyNone, "decisions").err = ""

\* delete with {} on a table of two rows has raised OperationalError and the
\* two rows are still there, while delete with None deletes both
C9_Raises ==
    /\ ret[1].op = "delete"
    /\ ret[1].cmd_dict = PyDict(<<>>)
    /\ ret[1].err = "OperationalError"
    /\ Len(ret[1].before) = 2
    /\ db["DECISIONS"].rows = ret[1].before
    /\ delete(db, PyNone, "decisions").rowcount = 2

\* C10: select called with the empty mapping {} as predicate returns the rows
\* select with None returns, all rows of the table and no error, with and
\* without an order_by.
C10_EmptyMappingSelectsAll ==
    (ret[1].op = "select" /\ ret[1].where_clause = PyDict(<<>>)) =>
        /\ ret[1].err = ""
        /\ ret[1].val = select(db, PyNone, PyNone, ret[1].order_by, "decisions").rows
        /\ Len(ret[1].val) = Len(db["DECISIONS"].rows)
        /\ {ret[1].val[j] : j \in DOMAIN ret[1].val} = Range(db["DECISIONS"].rows)

\* select with {} and an order_by has returned the two rows of the table,
\* which belong to different meetings, in the order of the order_by
C10_Witness ==
    /\ ret[1].op = "select"
    /\ ret[1].where_clause = PyDict(<<>>)
    /\ ret[1].order_by = PyStr("decision DESC")
    /\ ret[1].err = ""
    /\ Len(ret[1].val) = 2
    /\ ret[1].val[1]["DECISION"] = "D2"
    /\ ret[1].val[2]["DECISION"] = "D1"
    /\ ret[1].val[1]["MEETING_ID"] # ret[1].val[2]["MEETING_ID"]
    /\ ret[1].val[1]["ID"] = 2

(***************************************************************************)
(* Schema definition: create_table called directly, and MeetingDatabase    *)
(* constructed on a file that already holds some tables                    *)
(***************************************************************************)
\* the specs handed to create_table: the mapper's four, one whose
\* "Primary Key" names no declared column and one whose "Foreign Key" does
TableSpecs ==
    << <<meetings_spec, "meetings">>,
       <<key_points_spec, "key_points">>,
       <<action_items_spec, "action_items">>,
       <<decisions_spec, "decisions">>,
       << << <<"id", <<"TEXT">> >>, <<"Primary Key", "ident">> >>, "notes">>,
       << << <<"id", <<"TEXT">> >>,
             <<"Foreign Key", << <<"owner", "meetings">> >> >> >>, "tags">> >>

\* a database file that was just created
InitSchema ==
    /\ db = EmptyDatabase
    /\ frame = [c \in Callers |-> Idle]
    /\ ret = [c \in Callers |-> NoCall]
    /\ saved = [i \in {} |-> PyNone]
    /\ user = PyNone

\* before is the database when create_table is called
SchemaCreate(c, spec, name) ==
    LET r == create_table(db, spec, name)
    IN  /\ frame[c] = Idle
        /\ db' = r.db
        /\ ret' = [ret EXCEPT ![c] = [op |-> "create_table", spec |-> spec,
                                     name |-> name, err |-> r.err, before |-> db]]
        /\ UNCHANGED <<frame, saved, user>>

\* the columns a spec declares
DeclaredColumns(spec) ==
    {spec[i][1] : i \in DOMAIN spec} \ {"Primary Key", "Foreign Key"}

\* the spec's primary key or one of its foreign keys names no declared column
Malformed(spec) ==
    \/ /\ HasKey(spec, "Primary Key")
       /\ Get(spec, "Primary Key") \notin DeclaredColumns(spec)
    \/ /\ HasKey(spec, "Foreign Key")
       /\ \E i \in DOMAIN Get(spec, "Foreign Key") :
              Get(spec, "Foreign Key")[i][1] \notin DeclaredColumns(spec)

\* C11: create_table with a spec whose "Primary Key" or "Foreign Key" names a
\* column that is not declared raises an error and creates no table: the
\* tables of the store are those it held before the call.
C11_MalformedSpecFails ==
    (ret[1].op = "create_table" /\ Malformed(ret[1].spec)) =>
        /\ ret[1].err # ""
        /\ db = ret[1].before

\* create_table with a "Primary Key" that names no declared column has
\* returned without error and the store holds a new table, none of whose
\* columns is a primary key
C11_TableCreated ==
    /\ ret[1].op = "create_table"
    /\ ret[1].name = "notes"
    /\ HasKey(ret[1].spec, "Primary Key")
    /\ Get(ret[1].spec, "Primary Key") \notin DeclaredColumns(ret[1].spec)
    /\ ret[1].err = ""
    /\ "NOTES" \notin DOMAIN ret[1].before
    /\ "NOTES" \in DOMAIN db
    /\ \A d \in Range(db["NOTES"].cols) : ~d.pk

\* MeetingDatabase(db_path) on the file as it is; before is the database
\* when the constructor is called
Construct(c) ==
    LET r == MeetingDatabase(db)
    IN  /\ frame[c] = Idle
        /\ db' = r.db
        /\ ret' = [ret EXCEPT ![c] = [op |-> "MeetingDatabase", err |-> r.err,
                                     before |-> db]]
        /\ UNCHANGED <<frame, saved, user>>

NextSchema ==
    \/ \E n \in DOMAIN TableSpecs : SchemaCreate(1, TableSpecs[n][1], TableSpecs[n][2])
    \/ InsertRow(1, Rows[1].data, Rows[1].name)
    \/ Construct(1)

SpecSchema == InitSchema /\ [][NextSchema]_vars

\* C14: whatever subset of meetings, key_points, action_items and decisions
\* the file already holds, constructing a MeetingDatabase raises no error,
\* afterwards all four tables exist, and the tables that existed before are
\* unchanged.
C14_InitCompletesSchema ==
    ret[1].op = "MeetingDatabase" =>
        /\ ret[1].err = ""
        /\ {"MEETINGS"} \cup ChildTables \subseteq DOMAIN db
        /\ \A n \in DOMAIN ret[1].before : db[n] = ret[1].before[n]

\* the constructor has returned without error on a file that held the
\* meetings table alone, with a row: the probe of meetings succeeded, no
\* table was created and the three child tables do not exist
C14_ChildTablesMissing ==
    /\ ret[1].op = "MeetingDatabase"
    /\ ret[1].err = ""
    /\ DOMAIN ret[1].before = {"MEETINGS"}
    /\ Len(ret[1].before["MEETINGS"].rows) = 1
    /\ DOMAIN db = {"MEETINGS"}
    /\ db = ret[1].before

(***************************************************************************)
(* Constraints on single_insert                                            *)
(***************************************************************************)
\* the value a cmd_dict gives to the column named col, if it gives one
Given(cmd_dict, col) ==
    {cmd_dict[i][2] : i \in {j \in DOMAIN cmd_dict : upper(cmd_dict[j][1]) = col}}

\* C12: single_insert of a row into key_points, action_items or decisions
\* whose meeting_id is the id of no meetings row raises a constraint error
\* and inserts nothing.
C12_OrphanInsertFails ==
    (/\ ret[1].op = "insert_row"
     /\ upper(ret[1].name) \in ChildTables
     /\ \A v \in Given(ret[1].cmd_dict, "MEETING_ID") : ~HasParent(ret[1].before, v)) =>
        /\ ret[1].err = "IntegrityError"
        /\ db = ret[1].before

\* single_insert of a key_points row has returned without error while
\* meetings is empty, and the row is in key_points, whose foreign key on
\* meeting_id is declared
C12_OrphanInserted ==
    /\ ret[1].op = "insert_row"
    /\ ret[1].name = "key_points"
    /\ ret[1].err = ""
    /\ db["MEETINGS"].rows = <<>>
    /\ Len(db["KEY_POINTS"].rows) = Len(ret[1].before["KEY_POINTS"].rows) + 1
    /\ \E r \in Range(db["KEY_POINTS"].rows) :
           /\ r["MEETING_ID"] = "m1"
           /\ ~HasParent(db, r["MEETING_ID"])
    /\ db["KEY_POINTS"].fks # <<>>

\* the row gives the primary key, which is the column id in each of the
\* four specs, the value it has in a row of the table
Duplicate(conn, cmd_dict, name) ==
    \E v \in Given(cmd_dict, "ID"), r \in Range(conn[upper(name)].rows) : r["ID"] = v

\* C13: single_insert of a row whose primary-key value is already in the
\* table raises a constraint error and leaves the table as it was: the same
\* rows with the same values.
C13_DuplicateKeyFails ==
    (/\ ret[1].op = "insert_row"
     /\ Duplicate(ret[1].before, ret[1].cmd_dict, ret[1].name)) =>
        /\ ret[1].err = "IntegrityError"
        /\ db = ret[1].before

\* a second meetings row with the identifier of the first has been refused:
\* the table still holds the first row alone, with its title
C13_Witness ==
    /\ ret[1].op = "insert_row"
    /\ ret[1].name = "meetings"
    /\ Given(ret[1].cmd_dict, "TITLE") = {"T2"}
    /\ ret[1].err = "IntegrityError"
    /\ Len(db["MEETINGS"].rows) = 1
    /\ db["MEETINGS"].rows[1]["ID"] = "m1"
    /\ db["MEETINGS"].rows[1]["TITLE"] = "T"

(***************************************************************************)
(* A save_meeting that fails after its parent insert                       *)
(***************************************************************************)
\* the row a single_insert of save_meeting wrote is in its table
Inserted(conn, st) ==
    \E r \in Range(conn[upper(st.name)].rows) :
        \A i \in DOMAIN st.data : r[upper(st.data[i][1])] = st.data[i][2]

\* caller c's save_meeting ends in this step with an error raised by one of
\* its child inserts
ChildInsertFails(c) ==
    /\ frame[c].op = "save_meeting"
    /\ frame[c].k >= 2
    /\ frame'[c] = Idle
    /\ ret'[c].err # ""

\* C15: when a child insert of save_meeting fails after the parent insert
\* succeeded, the error is raised to the caller of save_meeting and no
\* identifier is returned, and the parent row and every child row inserted
\* before the failure stay in the store: nothing is rolled back.
C15_PartialSaveStays ==
    [][ChildInsertFails(1) =>
          /\ ret'[1].op = "save_meeting"
          /\ ret'[1].val = None
          /\ db' = db
          /\ saved' = saved
          /\ \A j \in 1 .. frame[1].k - 1 :
                 Inserted(db', SaveStatements(frame[1].args)[j])]_vars

\* a save_meeting of m1 has ended with the engine's error after its first key
\* point was inserted: the parent row and that key point are in the store,
\* nothing else of the meeting is, and the save is not recorded as completed
C15_Witness ==
    /\ frame[1] = Idle
    /\ ret[1].op = "save_meeting"
    /\ ret[1].meeting_id = "m1"
    /\ ret[1].err = Locked
    /\ ret[1].val = None
    /\ HasParent(db, "m1")
    /\ Len(ChildRows(db, "KEY_POINTS", "m1")) = 1
    /\ ChildRows(db, "DECISIONS", "m1") = <<>>
    /\ "m1" \notin DOMAIN saved

\* ---------------------------------------------------------------------------
\* The User object (user.py) and its field-path update
\* ---------------------------------------------------------------------------

PyInt(n) == [t |-> "int", n |-> n]

\* A MeetingRecord is its attribute dictionary, a sequence of <<name, value>>
\* pairs in the order the attributes were set.  getattr with the default None.
get_field(meeting, field) == GetOr(meeting, field, PyNone)

\* setattr: replaces the attribute, or adds it when the record has none of
\* that name
set_field(meeting, field, value) ==
    IF HasKey(meeting, field)
    THEN [i \in DOMAIN meeting |->
             IF meeting[i][1] = field THEN <<field, value>> ELSE meeting[i]]
    ELSE Append(meeting, <<field, value>>)

\* Python's sequence indexing: k addresses an element of a sequence of n
\* elements when -n <= k < n, a negative k counting from the end
InRange(n, k) == 0 - n <= k /\ k < n

Position(n, k) == IF k >= 0 THEN k + 1 ELSE n + k + 1

\* obj[key]
GetItem(obj, key) ==
    CASE obj.t = "list" ->
            IF key.t # "int" THEN Raise("TypeError")
            ELSE IF ~InRange(Len(obj.items), key.n) THEN Raise("IndexError")
            ELSE Returned(obj.items[Position(Len(obj.items), key.n)])
      [] obj.t = "str" ->
            IF key.t # "int" THEN Raise("TypeError")
            ELSE IF ~InRange(Len(obj.s), key.n) THEN Raise("IndexError")
            ELSE Returned(PyStr(SubSeq(obj.s, Position(Len(obj.s), key.n),
                                       Position(Len(obj.s), key.n))))
      [] obj.t = "dict" ->
            IF key.t = "str" /\ HasKey(obj.items, key.s)
            THEN Returned(Get(obj.items, key.s))
            ELSE Raise("KeyError")
      [] OTHER -> Raise("TypeError")

\* an assignment that extends a list when the index is its length
SetItemGrowing(obj, key, value) ==
    CASE obj.t = "list" /\ key.t = "int" ->
            IF key.n = Len(obj.items)
            THEN Returned(PyList(Append(obj.items, value)))
            ELSE IF ~InRange(Len(obj.items), key.n) THEN Raise("IndexError")
            ELSE Returned(PyList([obj.items EXCEPT
                                     ![Position(Len(obj.items), key.n)] = value]))
      [] obj.t = "dict" /\ key.t = "str" ->
            Returned(PyDict(set_field(obj.items, key.s, value)))
      [] OTHER -> Raise("TypeError")

\* obj[key] = value, the object after the assignment
SetItem(obj, key, value) ==
    CASE obj.t = "list" ->
            IF key.t # "int" THEN Raise("TypeError")
            ELSE IF ~InRange(Len(obj.items), key.n) THEN Raise("IndexError")
            ELSE Returned(PyList([obj.items EXCEPT
                                     ![Position(Len(obj.items), key.n)] = value]))
      [] obj.t = "dict" /\ key.t = "str" ->
            Returned(PyDict(set_field(obj.items, key.s, value)))
      [] OTHER -> Raise("TypeError")

\* the names bound in the module user.py
UserGlobals == {"List", "MeetingRecord", "class_helpers", "db_func", "User"}

\* The value to store under field[0], or the exception of the assignment of
\* lines 76 to 81.  The assignments act on the object m_value refers to, which
\* no one else holds when they raise.
Assigned(m_value, field, change) ==
    IF Len(field) = 1 THEN Returned(change)
    ELSE IF Len(field) = 2 THEN SetItem(m_value, field[2], change)
    ELSE IF Len(field) = 3
    THEN LET element == GetItem(m_value, field[2])
         IN  IF element.err # "" THEN element
             ELSE IF SetItem(element.val, field[3], change).err # ""
             THEN SetItem(element.val, field[3], change)
             ELSE SetItem(m_value, field[2],
                          SetItem(element.val, field[3], change).val)
    ELSE Returned(m_value)

\* User.update_meeting: the exception, the object afterwards, and the number of
\* calls of class_helpers.update_meeting it made.  Line 84 looks the bare name
\* update_meeting up in the module, which does not bind it.
update_meeting(self, conn, meeting_index, field, change) ==
    IF ~InRange(Len(self.meetings), meeting_index)
    THEN [err |-> "IndexError", self |-> self, calls |-> 0]
    ELSE LET at == Position(Len(self.meetings), meeting_index)
             m_value == get_field(self.meetings[at], field[1].s)
         IN  IF Assigned(m_value, field, change).err # ""
             THEN [err |-> Assigned(m_value, field, change).err,
                   self |-> self, calls |-> 0]
             ELSE [err |-> IF "update_meeting" \in UserGlobals
                           THEN "" ELSE "NameError",
                   self |-> [self EXCEPT !.meetings[at] =
                                set_field(self.meetings[at], field[1].s,
                                          Assigned(m_value, field, change).val)],
                   calls |-> IF "update_meeting" \in UserGlobals THEN 1 ELSE 0]

MaxIndex == 2

Indexes == (0 - MaxIndex - 1) .. MaxIndex
FieldNames == {"summary_heading", "key_points", "action_items", "nope"}
ItemKeys == {"task", "owner"}
Changes == {PyStr("Z")}

Paths ==
    {<<PyStr(f)>> : f \in FieldNames}
    \cup {<<PyStr(f), PyInt(i)>> : f \in FieldNames, i \in Indexes}
    \cup {<<PyStr(f), PyInt(i), PyStr(k)>> :
             f \in FieldNames, i \in Indexes, k \in ItemKeys}

\* A user holding one meeting, with the attributes the two classes give their
\* objects
InitUser ==
    /\ db = EmptyDatabase
    /\ frame = [c \in Callers |-> Idle]
    /\ ret = [c \in Callers |-> NoCall]
    /\ saved = [i \in {} |-> PyNone]
    /\ user = [user_id |-> 1, username |-> "ann", last_meeting_id |-> 0,
               meetings |-> <<
                 << <<"meeting_id", PyInt(0)>>,
                    <<"meeting_date", PyStr("2025-11-04")>>,
                    <<"summary_heading", PyStr("H")>>,
                    <<"key_points", PyList(<<PyStr("A"), PyStr("B")>>)>>,
                    <<"action_items",
                      PyList(<< PyDict(<< <<"assignee", PyStr("Sam")>>,
                                          <<"task", PyStr("X")>>,
                                          <<"deadline", PyNone>> >>) >>)>> >> >>]

\* before is the object when the method is called
UpdateMeeting(c, meeting_index, field, change) ==
    LET r == update_meeting(user, db, meeting_index, field, change)
    IN  /\ frame[c] = Idle
        /\ user' = r.self
        /\ ret' = [ret EXCEPT ![c] =
                     [op |-> "update_meeting", meeting_index |-> meeting_index,
                      field |-> field, change |-> change, err |-> r.err,
                      calls |-> r.calls, before |-> user]]
        /\ UNCHANGED <<db, frame, saved>>

\* a bare name used in user.py is looked up among the names the module
\* binds
LookUp(name) ==
    IF name \in UserGlobals THEN Returned([t |-> "global", name |-> name])
    ELSE Raise("NameError")

\* User(conn, username): line 14 calls the bare name check_username; lines 15
\* to 38, which set the attributes, come after it
User(conn, username) == LookUp("check_username")

\* MeetingRecord(meeting_stats, True)
MeetingRecord(meeting_stats, today) ==
    IF \E k \in {"summary_heading", "key_points", "action_items"} :
           ~HasKey(meeting_stats.items, k)
    THEN Raise("KeyError")
    ELSE Returned(<< <<"meeting_id", PyInt(0)>>,
                     <<"meeting_date", PyStr(today)>>,
                     <<"summary_heading", Get(meeting_stats.items, "summary_heading")>>,
                     <<"key_points", Get(meeting_stats.items, "key_points")>>,
                     <<"action_items", Get(meeting_stats.items, "action_items")>> >>)

\* User.add_meeting: the exception, the object afterwards and the payloads
\* passed to class_helpers.insert_meeting (their values before json.dumps).
\* Line 45 reads the bare name last_meeting_id and line 51 calls the bare
\* name insert_meeting.
add_meeting(self, conn, ollama_input, today) ==
    LET new_meeting == MeetingRecord(ollama_input, today)
        mid         == LookUp("last_meeting_id")
        added       == [self EXCEPT
                           !.last_meeting_id = @ + 1,
                           !.meetings = Append(@, set_field(new_meeting.val,
                                                            "meeting_id", mid.val))]
    IN  IF new_meeting.err # ""
        THEN [err |-> new_meeting.err, self |-> self, inserts |-> <<>>]
        ELSE IF mid.err # ""
        THEN [err |-> mid.err, self |-> self, inserts |-> <<>>]
        ELSE IF LookUp("insert_meeting").err # ""
        THEN [err |-> "NameError", self |-> added, inserts |-> <<>>]
        ELSE [err |-> "", self |-> added,
              inserts |-> << set_field(set_field(added.meetings[Len(added.meetings)],
                                                 "username", PyStr(self.username)),
                                       "user_id", PyInt(self.user_id)) >>]

Today == "2025-11-05"

OllamaInputs ==
    {PyDict(<< <<"summary_heading", PyStr("S")>>,
               <<"key_points", PyList(<<PyStr("a")>>)>>,
               <<"action_items", PyList(<<>>)>> >>),
     PyDict(<< <<"summary_heading", PyStr("S")>> >>)}

\* before is the object when the method is called
AddMeeting(c, ollama_input) ==
    LET r == add_meeting(user, db, ollama_input, Today)
    IN  /\ frame[c] = Idle
        /\ user' = r.self
        /\ ret' = [ret EXCEPT ![c] =
                     [op |-> "add_meeting", ollama_input |-> ollama_input,
                      err |-> r.err, inserts |-> r.inserts, before |-> user]]
        /\ UNCHANGED <<db, frame, saved>>

\* User(conn, username) is called; the object in use stays when it raises
NewUser(c, username) ==
    LET r == User(db, username)
    IN  /\ frame[c] = Idle
        /\ user' = IF r.err # "" THEN user ELSE r.val
        /\ ret' = [ret EXCEPT ![c] =
                     [op |-> "User", username |-> username, err |-> r.err]]
        /\ UNCHANGED <<db, frame, saved>>

NextUser ==
    \/ \E meeting_index \in {0, 1}, field \in Paths, change \in Changes :
          UpdateMeeting(1, meeting_index, field, change)
    \/ \E ollama_input \in OllamaInputs : AddMeeting(1, ollama_input)
    \/ NewUser(1, "ann")

SpecUser == InitUser /\ [][NextUser]_vars

\* the target of a 2- or 3-element path that names a field of the record is
\* not of the shape the path needs, or its index addresses no element
Misaddressed(meeting, field) ==
    LET target == get_field(meeting, field[1].s)
        k == field[2].n
    IN  /\ Len(field) \in {2, 3}
        /\ HasKey(meeting, field[1].s)
        /\ \/ target.t # "list"
           \/ k >= Len(target.items)
           \/ k < 0 - Len(target.items)
           \/ /\ Len(field) = 3
              /\ target.items[Position(Len(target.items), k)].t # "dict"

AttributeNames(meeting) == {meeting[i][1] : i \in DOMAIN meeting}

\* C17: a call of User.update_meeting on a meeting of the user, with a path
\* whose first element names no attribute of the record, ends with an
\* exception, adds no attribute to the record and makes no call of
\* class_helpers.update_meeting.
C17_UnknownFieldRejected ==
    (/\ ret[1].op = "update_meeting"
     /\ ret[1].meeting_index = 0
     /\ ~HasKey(ret[1].before.meetings[1], ret[1].field[1].s))
    => /\ ret[1].err # ""
       /\ AttributeNames(user.meetings[1])
              = AttributeNames(ret[1].before.meetings[1])
       /\ ret[1].calls = 0

\* the 1-element path ("nope",) has added the attribute nope to the record
C17_FieldAdded ==
    /\ ret[1].op = "update_meeting"
    /\ ret[1].meeting_index = 0
    /\ ret[1].field = <<PyStr("nope")>>
    /\ ~HasKey(ret[1].before.meetings[1], "nope")
    /\ get_field(user.meetings[1], "nope") = PyStr("Z")
    /\ ret[1].err = "NameError"

(***************************************************************************)
(* Listing: meetings with children are saved and the list is read          *)
(***************************************************************************)
ListTimes == {"t1", "t2"}

NextList ==
    \/ \E i \in Ids, t \in ListTimes, now \in Clock : SaveBegin(1, i, t, now)
    \/ SaveStep(1)
    \/ SaveReturn(1)
    \/ \E limit \in Limits, offset \in Offsets : ListMeetings(1, limit, offset)

SpecList == Init /\ [][NextList]_vars

\* the page of meetings rows get_all_meetings selects
ParentPage(conn, limit, offset) ==
    select(conn, PyList(<<>>), PyNone,
           PyStr(OrderClause(limit, offset, DefaultOrder)), "meetings").rows

\* C18: the list get_all_meetings returns has one aggregate for each row of
\* the selected page of meetings, in the order of the page, and each
\* aggregate is what get_meeting returns for its identifier.
C18_ListedAsLoaded ==
    ret[1].op = "list" =>
        /\ ret[1].err = ""
        /\ IdsOf(ret[1].val)
             = [n \in DOMAIN ParentPage(db, ret[1].limit, ret[1].offset) |->
                   ParentPage(db, ret[1].limit, ret[1].offset)[n]["ID"]]
        /\ \A n \in DOMAIN ret[1].val :
              Returned(ret[1].val[n]) = get_meeting(db, ret[1].val[n]["id"])

\* two meetings with different key points have been listed
C18_Witness ==
    /\ ret[1].op = "list"
    /\ ret[1].err = ""
    /\ Len(ret[1].val) = 2
    /\ ret[1].val[1]["key_points"] # ret[1].val[2]["key_points"]
    /\ \E n \in {1, 2} : ret[1].val[n]["key_points"] # <<>>

(***************************************************************************)
(* Order and pagination of the listing                                     *)
(***************************************************************************)
\* the identifiers of the meetings rows in the order they were inserted
InsertionOrder(conn) ==
    [n \in DOMAIN conn["MEETINGS"].rows |-> conn["MEETINGS"].rows[n]["ID"]]

\* each meeting was saved with a later created_at than those saved before it
IncreasingTimes(conn) ==
    \A i, j \in DOMAIN conn["MEETINGS"].rows :
        i < j => TextLess(conn["MEETINGS"].rows[i]["CREATED_AT"],
                          conn["MEETINGS"].rows[j]["CREATED_AT"])

Reversed(s) == [n \in DOMAIN s |-> s[Len(s) + 1 - n]]

\* C19: when the meetings were saved with distinct, increasing created_at
\* values, get_all_meetings() with its default arguments returns them in the
\* reverse of the order in which they were saved.
C19_NewestFirst ==
    (/\ ret[1].op = "list"
     /\ ret[1].limit = NullInteger
     /\ ret[1].offset = 0
     /\ IncreasingTimes(db))
    => /\ ret[1].err = ""
       /\ IdsOf(ret[1].val) = Reversed(InsertionOrder(db))

\* three meetings saved at t1, t2 and t3 have been listed
C19_Witness ==
    /\ ret[1].op = "list"
    /\ ret[1].limit = NullInteger
    /\ ret[1].offset = 0
    /\ Len(db["MEETINGS"].rows) = 3
    /\ IncreasingTimes(db)
    /\ Len(ret[1].val) = 3
    /\ ret[1].val[1]["id"] = db["MEETINGS"].rows[3]["ID"]

\* all the meetings in the order of the listing
WholeList(conn) == IdsOf(get_all_meetings(conn, NullInteger, 0, DefaultOrder).val)

\* what is left of a list after offset elements are skipped and at most
\* limit elements are kept, all of them when limit is None
Remaining(all, limit, offset) ==
    SubSeq(all, offset + 1,
           IF limit = NullInteger \/ offset + limit > Len(all) THEN Len(all)
           ELSE offset + limit)

\* C20: get_all_meetings(limit, offset) returns the meetings of the whole
\* list after its first offset ones, at most limit of them, and all of them
\* when limit is None, for every offset.
C20_SkipsOffset ==
    ret[1].op = "list" =>
        /\ ret[1].err = ""
        /\ IdsOf(ret[1].val) = Remaining(WholeList(db), ret[1].limit, ret[1].offset)

\* get_all_meetings(limit=None, offset=1) has returned all three meetings
C20_OffsetIgnored ==
    /\ ret[1].op = "list"
    /\ ret[1].limit = NullInteger
    /\ ret[1].offset = 1
    /\ ret[1].err = ""
    /\ Len(db["MEETINGS"].rows) = 3
    /\ Len(ret[1].val) = 3

(***************************************************************************)
(* Counting, deleting and saving again in the single-writer specification  *)
(***************************************************************************)
\* the identifiers of the meetings rows
ParentIds(conn) == {r["ID"] : r \in Range(conn["MEETINGS"].rows)}

C23_ChildrenFirst ==
    frame[1].op = "delete_meeting" =>
        /\ HasChildren(db, frame[1].meeting_id) => HasParent(db, frame[1].meeting_id)
        /\ (frame[1].existed /\ ~HasParent(db, frame[1].meeting_id)) =>
               /\ frame[1].k > Len(DeleteStatements(frame[1].meeting_id))
               /\ ~HasChildren(db, frame[1].meeting_id)
        /\ frame[1].k >= Len(DeleteStatements(frame[1].meeting_id)) =>
               ~HasChildren(db, frame[1].meeting_id)

\* a delete_meeting has deleted the key points and the action items of a
\* meeting whose decisions and parent row are still there
C23_Witness ==
    /\ frame[1].op = "delete_meeting"
    /\ frame[1].k = 3
    /\ frame[1].existed
    /\ ChildRows(db, "DECISIONS", frame[1].meeting_id) # <<>>
    /\ ChildRows(db, "KEY_POINTS", frame[1].meeting_id) = <<>>
    /\ HasParent(db, frame[1].meeting_id)

\* caller c calls save_meeting(i, ...) in this step
SaveCalled(c, i) ==
    /\ frame[c] = Idle
    /\ \/ /\ frame'[c].op = "save_meeting"
          /\ frame'[c].args.meeting_id = i
       \/ /\ frame'[c] = Idle
          /\ ret'[c].op = "save_meeting"
          /\ ret'[c].meeting_id = i

\* C28: save_meeting of an identifier that has a meetings row ends at the
\* parent insert with the engine's constraint error and returns no
\* identifier; no child table gains a row and get_meeting(id) returns what it
\* returned before the call.
C28_DuplicateSaveFails ==
    [][\A i \in Ids :
          (HasParent(db, i) /\ SaveCalled(1, i)) =>
              /\ frame'[1] = Idle
              /\ ret'[1].err = "IntegrityError"
              /\ ret'[1].val = None
              /\ \A name \in ChildTables : db'[name].rows = db[name].rows
              /\ get_meeting(db', i) = get_meeting(db, i)
              /\ saved' = saved]_vars

\* save_meeting of a stored meeting that has key points has been refused
C28_Witness ==
    /\ frame[1] = Idle
    /\ ret[1].op = "save_meeting"
    /\ ret[1].err = "IntegrityError"
    /\ ret[1].meeting_id \in DOMAIN saved
    /\ get_meeting(db, ret[1].meeting_id).val["key_points"] # <<>>
    /\ get_meeting(db, ret[1].meeting_id).val["key_points"]
          = saved[ret[1].meeting_id].key_points

\* a statement of caller c's delete_meeting(i) may run in this step: the
\* call is in progress, or it is made
DeleteActs(c, i) ==
    \/ /\ frame[c].op = "delete_meeting"
       /\ frame[c].meeting_id = i
    \/ /\ frame[c] = Idle
       /\ frame'[c].op = "delete_meeting"
       /\ frame'[c].meeting_id = i

\* C29: no step of delete_meeting(id) changes what belongs to another
\* meeting: for every other identifier j, its meetings row and child rows and
\* the aggregate get_meeting(j) returns are the same after the step, whether
\* or not id had a meetings row.
C29_OthersUntouched ==
    [][\A i \in Ids :
          DeleteActs(1, i) =>
              \A j \in Ids \ {i} :
                  /\ get_meeting(db', j) = get_meeting(db, j)
                  /\ HasParent(db', j) <=> HasParent(db, j)
                  /\ \A name \in ChildTables :
                         ChildRows(db', name, j) = ChildRows(db, name, j)]_vars

\* delete_meeting of a stored meeting with children has returned True and
\* the other meeting reads back as it was saved, with its children
C29_Witness ==
    /\ ret[1].op = "delete_meeting"
    /\ ret[1].err = ""
    /\ ret[1].val = TRUE
    /\ \E j \in DOMAIN saved \ {ret[1].meeting_id} :
          /\ HasChildren(db, j)
          /\ ReadsBack(get_meeting(db, j), saved[j])
    /\ LastRowId(db, "KEY_POINTS") = 1
    /\ LastRowId(db, "DECISIONS") = 1

(***************************************************************************)
(* Restart: the database is closed and MeetingDatabase is constructed on   *)
(* the same file.  Every statement of the mapper has committed, so the     *)
(* file holds what the connection saw.                                     *)
(***************************************************************************)
NextReopen ==
    \/ \E i \in Ids, t \in Timestamps, now \in Clock : SaveBegin(1, i, t, now)
    \/ SaveStep(1)
    \/ SaveReturn(1)
    \/ \E i \in Ids : DeleteBegin(1, i)
    \/ DeleteStep(1)
    \/ DeleteReturn(1)
    \/ Construct(1)

SpecReopen == Init /\ [][NextReopen]_vars

\* C22: constructing MeetingDatabase again on the file of a store raises
\* nothing and leaves count_meetings() and get_meeting(id) of every
\* identifier as they were, and every table with its rows as it was.
C22_ReopenPreserves ==
    ret[1].op = "MeetingDatabase" =>
        /\ ret[1].err = ""
        /\ count_meetings(db) = count_meetings(ret[1].before)
        /\ \A i \in Ids : get_meeting(db, i) = get_meeting(ret[1].before, i)
        /\ db = ret[1].before

\* the store was reopened with one meeting saved with children and the
\* other deleted
C22_Witness ==
    /\ ret[1].op = "MeetingDatabase"
    /\ ret[1].err = ""
    /\ \E i \in DOMAIN saved : HasParent(db, i) /\ HasChildren(db, i)
    /\ \E j \in Ids : j \notin DOMAIN saved /\ get_meeting(db, j) = Returned(PyNone)
    /\ LastRowId(db, "KEY_POINTS") = MaxRowId

(***************************************************************************)
(* Field-path updates that address a value                                 *)
(***************************************************************************)
\* the path names an attribute of the record, and for 2 and 3 elements an
\* element of the list it holds, for 3 elements a dict
WellAddressed(meeting, field) ==
    LET target == get_field(meeting, field[1].s)
        k == field[2].n
    IN  /\ HasKey(meeting, field[1].s)
        /\ Len(field) \in {2, 3} =>
              /\ target.t = "list"
              /\ k < Len(target.items)
              /\ k >= 0 - Len(target.items)
              /\ Len(field) = 3 =>
                    target.items[Position(Len(target.items), k)].t = "dict"

\* after differs from before in the value the path addresses, which is
\* change, and in nothing else
OnlyAddressedSet(before, after, field, change) ==
    LET old == get_field(before, field[1].s)
        new == get_field(after, field[1].s)
        at  == Position(Len(old.items), field[2].n)
    IN  /\ AttributeNames(after) = AttributeNames(before)
        /\ \A f \in AttributeNames(before) \ {field[1].s} :
               get_field(after, f) = get_field(before, f)
        /\ Len(field) = 1 => new = change
        /\ Len(field) \in {2, 3} =>
               /\ new.t = "list"
               /\ Len(new.items) = Len(old.items)
               /\ \A n \in DOMAIN old.items \ {at} : new.items[n] = old.items[n]
        /\ Len(field) = 2 => new.items[at] = change
        /\ Len(field) = 3 =>
               /\ new.items[at].t = "dict"
               /\ get_field(new.items[at].items, field[3].s) = change
               /\ \A k \in AttributeNames(old.items[at].items) \ {field[3].s} :
                      get_field(new.items[at].items, k)
                        = get_field(old.items[at].items, k)

\* C24: a call of User.update_meeting with a path that addresses a value
\* sets that value of the meeting to the change, leaves every other field,
\* list element and attribute of the user as it was, and then makes exactly
\* one call of class_helpers.update_meeting, without raising.
C24_UpdatesAndPersists ==
    (/\ ret[1].op = "update_meeting"
     /\ ret[1].meeting_index = 0
     /\ WellAddressed(ret[1].before.meetings[1], ret[1].field))
    => /\ OnlyAddressedSet(ret[1].before.meetings[1], user.meetings[1],
                           ret[1].field, ret[1].change)
       /\ Len(user.meetings) = Len(ret[1].before.meetings)
       /\ user.user_id = ret[1].before.user_id
       /\ user.username = ret[1].before.username
       /\ user.last_meeting_id = ret[1].before.last_meeting_id
       /\ ret[1].err = ""
       /\ ret[1].calls = 1

\* the in-memory half of C24 alone
InMemoryUpdate ==
    (/\ ret[1].op = "update_meeting"
     /\ ret[1].meeting_index = 0
     /\ WellAddressed(ret[1].before.meetings[1], ret[1].field))
    => /\ OnlyAddressedSet(ret[1].before.meetings[1], user.meetings[1],
                           ret[1].field, ret[1].change)
       /\ [user EXCEPT !.meetings = <<>>] = [ret[1].before EXCEPT !.meetings = <<>>]
       /\ Len(user.meetings) = 1

\* the task of the first action item has been set in memory and the call has
\* ended with NameError, without a call of class_helpers.update_meeting
C24_NotPersisted ==
    /\ ret[1].op = "update_meeting"
    /\ ret[1].meeting_index = 0
    /\ ret[1].field = <<PyStr("action_items"), PyInt(0), PyStr("task")>>
    /\ WellAddressed(ret[1].before.meetings[1], ret[1].field)
    /\ GetItem(GetItem(get_field(ret[1].before.meetings[1], "action_items"),
                       PyInt(0)).val, PyStr("task")).val = PyStr("X")
    /\ GetItem(GetItem(get_field(user.meetings[1], "action_items"),
                       PyInt(0)).val, PyStr("task")).val = PyStr("Z")
    /\ ret[1].err = "NameError"
    /\ ret[1].calls = 0

(***************************************************************************)
(* Adding a meeting to a user                                              *)
(***************************************************************************)
\* the transcription result has the keys MeetingRecord reads
Transcribed(ollama_input) ==
    \A k \in {"summary_heading", "key_points", "action_items"} :
        HasKey(ollama_input.items, k)

\* C25: User.add_meeting of a transcription result raises nothing, appends
\* exactly one meeting to the user's list, increases last_meeting_id by
\* exactly 1 and makes exactly one call of class_helpers.insert_meeting, with a
\* payload that carries the user's username and user_id and a meeting_id.
C25_AddsAndInserts ==
    (ret[1].op = "add_meeting" /\ Transcribed(ret[1].ollama_input)) =>
        /\ ret[1].err = ""
        /\ Len(user.meetings) = Len(ret[1].before.meetings) + 1
        /\ user.last_meeting_id = ret[1].before.last_meeting_id + 1
        /\ Len(ret[1].inserts) = 1
        /\ get_field(ret[1].inserts[1], "username") = PyStr(user.username)
        /\ get_field(ret[1].inserts[1], "user_id") = PyInt(user.user_id)
        /\ HasKey(ret[1].inserts[1], "meeting_id")

\* add_meeting has ended with NameError: the list and last_meeting_id are as
\* they were and nothing was passed to class_helpers.insert_meeting
C25_NothingAdded ==
    /\ ret[1].op = "add_meeting"
    /\ Transcribed(ret[1].ollama_input)
    /\ ret[1].err = "NameError"
    /\ user = ret[1].before
    /\ ret[1].inserts = <<>>

\* the meeting_id of each meeting of a user
MeetingIds(self) ==
    [n \in DOMAIN self.meetings |-> get_field(self.meetings[n], "meeting_id")]

\* C30: a User can be constructed, and each add_meeting gives the user one
\* more meeting whose meeting_id differs from that of every meeting the user
\* holds, those held before the call included.
C30_DistinctIds ==
    /\ ret[1].op = "User" => ret[1].err = ""
    /\ (ret[1].op = "add_meeting" /\ Transcribed(ret[1].ollama_input)) =>
          /\ Len(user.meetings) = Len(ret[1].before.meetings) + 1
          /\ \A m, n \in DOMAIN user.meetings :
                 MeetingIds(user)[m] = MeetingIds(user)[n] => m = n

\* the constructor has raised NameError
C30_NoUser ==
    /\ ret[1].op = "User"
    /\ ret[1].err = "NameError"
    /\ Len(user.meetings) = 1

(***************************************************************************)
(* MeetingSummarizer (meeting_summarizer.py)                               *)
(***************************************************************************)

RECURSIVE lstrip(_)
\* s.lstrip() for the whitespace characters of Blank
lstrip(s) ==
    IF s # "" /\ CharAt(s, 1) \in Blank THEN lstrip(Tail(s)) ELSE s

RECURSIVE rstrip(_)
rstrip(s) ==
    IF s # "" /\ CharAt(s, Len(s)) \in Blank THEN rstrip(DropLast(s, 1)) ELSE s

\* s.strip()
strip(s) == lstrip(rstrip(s))

\* s.startswith(prefix)
startswith(s, prefix) ==
    /\ Len(prefix) <= Len(s)
    /\ SubSeq(s, 1, Len(prefix)) = prefix

RECURSIVE split(_, _)
\* s.split(sep) for a separator of one character
split(s, sep) ==
    LET i == IndexOf(s, sep)
    IN  IF i = 0 THEN <<s>>
        ELSE <<SubSeq(s, 1, i - 1)>> \o split(SubSeq(s, i + 1, Len(s)), sep)

RECURSIVE join(_, _)
\* sep.join(parts)
join(sep, parts) ==
    IF parts = <<>> THEN ""
    ELSE IF Len(parts) = 1 THEN parts[1]
    ELSE parts[1] \o sep \o join(sep, Tail(parts))

\* The backquote cannot be written in a string of this language: the tilde
\* stands for it in every text of this section.
Backquote == "~"
Fence == Backquote \o Backquote \o Backquote

\* lines 131-140: the content stripped, and without the lines of a markdown
\* fence when it begins with one
Processed(content) ==
    LET result_text == strip(content)
        NotFence(line) == ~startswith(strip(line), Fence)
    IN  IF startswith(result_text, Fence)
        THEN join("\n", SelectSeq(split(result_text, "\n"), NotFence))
        ELSE result_text

\* json.loads for documents made of objects, arrays, strings without escape
\* sequences, natural numbers and null, true, false: a scan gives its value
\* and the position after it
JsonFail(i) == [ok |-> FALSE, val |-> PyNone, pos |-> i]
JsonOk(v, i) == [ok |-> TRUE, val |-> v, pos |-> i]
PyBool(b) == [t |-> "bool", b |-> b]

RECURSIVE JsonSkip(_, _)
\* the position of the first character at or after i that is not whitespace
JsonSkip(s, i) ==
    IF i <= Len(s) /\ CharAt(s, i) \in Blank THEN JsonSkip(s, i + 1) ELSE i

\* is the character at i the character c
JsonAt(s, i, c) == i <= Len(s) /\ CharAt(s, i) = c

\* a string that opens at i: it runs to the next quote and holds no newline
JsonString(s, i) ==
    LET j == IndexFrom(s, "\"", i + 1)
    IN  IF j = 0 \/ IndexOf(SubSeq(s, i + 1, j - 1), "\n") # 0
        THEN JsonFail(i)
        ELSE JsonOk(PyStr(SubSeq(s, i + 1, j - 1)), j + 1)

RECURSIVE JsonDigits(_, _)
\* the position after the digits that begin at i
JsonDigits(s, i) ==
    IF i <= Len(s) /\ IsDigit(CharAt(s, i)) THEN JsonDigits(s, i + 1) ELSE i

\* a number that begins at i: a zero stands alone
JsonNumber(s, i) ==
    LET j == IF CharAt(s, i) = "0" THEN i + 1 ELSE JsonDigits(s, i)
    IN  JsonOk(PyInt(NumberValue(SubSeq(s, i, j - 1), 0)), j)

JsonWord(s, i, word) ==
    /\ i + Len(word) - 1 <= Len(s)
    /\ SubSeq(s, i, i + Len(word) - 1) = word

\* d[k] = v: a key that is present keeps its place
SetKey(items, k, v) ==
    IF HasKey(items, k)
    THEN [n \in DOMAIN items |-> IF items[n][1] = k THEN <<k, v>> ELSE items[n]]
    ELSE Append(items, <<k, v>>)

RECURSIVE JsonValue(_, _)
RECURSIVE JsonElements(_, _, _)
RECURSIVE JsonMembers(_, _, _)

\* the value that begins at i
JsonValue(s, i) ==
    IF i > Len(s) THEN JsonFail(i)
    ELSE IF JsonAt(s, i, "\"") THEN JsonString(s, i)
    ELSE IF JsonAt(s, i, "[")
         THEN IF JsonAt(s, JsonSkip(s, i + 1), "]")
              THEN JsonOk(PyList(<<>>), JsonSkip(s, i + 1) + 1)
              ELSE JsonElements(s, JsonSkip(s, i + 1), <<>>)
    ELSE IF JsonAt(s, i, "{")
         THEN IF JsonAt(s, JsonSkip(s, i + 1), "}")
              THEN JsonOk(PyDict(<<>>), JsonSkip(s, i + 1) + 1)
              ELSE JsonMembers(s, JsonSkip(s, i + 1), <<>>)
    ELSE IF IsDigit(CharAt(s, i)) THEN JsonNumber(s, i)
    ELSE IF JsonWord(s, i, "null") THEN JsonOk(PyNone, i + 4)
    ELSE IF JsonWord(s, i, "true") THEN JsonOk(PyBool(TRUE), i + 4)
    ELSE IF JsonWord(s, i, "false") THEN JsonOk(PyBool(FALSE), i + 5)
    ELSE JsonFail(i)

\* the elements of an array from i on, after those of acc
JsonElements(s, i, acc) ==
    LET v == JsonValue(s, i)
        j == JsonSkip(s, v.pos)
    IN  IF ~v.ok THEN JsonFail(i)
        ELSE IF JsonAt(s, j, ",")
             THEN JsonElements(s, JsonSkip(s, j + 1), Append(acc, v.val))
        ELSE IF JsonAt(s, j, "]") THEN JsonOk(PyList(Append(acc, v.val)), j + 1)
        ELSE JsonFail(j)

\* the members of an object from i on, after those of acc
JsonMembers(s, i, acc) ==
    LET k == IF JsonAt(s, i, "\"") THEN JsonString(s, i) ELSE JsonFail(i)
        c == JsonSkip(s, k.pos)
        v == IF k.ok /\ JsonAt(s, c, ":")
             THEN JsonValue(s, JsonSkip(s, c + 1)) ELSE JsonFail(c)
        j == JsonSkip(s, v.pos)
    IN  IF ~v.ok THEN JsonFail(i)
        ELSE IF JsonAt(s, j, ",")
             THEN JsonMembers(s, JsonSkip(s, j + 1), SetKey(acc, k.val.s, v.val))
        ELSE IF JsonAt(s, j, "}")
             THEN JsonOk(PyDict(SetKey(acc, k.val.s, v.val)), j + 1)
        ELSE JsonFail(j)

\* json.loads(s): one value, whitespace around it and nothing after it
json_loads(s) ==
    LET v == JsonValue(s, JsonSkip(s, 1))
    IN  IF v.ok /\ JsonSkip(s, v.pos) = Len(s) + 1
        THEN Returned(v.val)
        ELSE Raise("JSONDecodeError")

\* line 146
required_keys == <<"summary_heading", "key_points", "action_items", "decisions">>

\* is sub a substring of s
IsSubstring(s, sub) ==
    \E i \in 1 .. (Len(s) - Len(sub) + 1) : SubSeq(s, i, i + Len(sub) - 1) = sub

\* the values that key in summary can be asked of
Containers == {"dict", "list", "str"}

\* key in summary: a key of a dict, an element of a list, a part of a str
Contains(summary, key) ==
    IF summary.t = "dict" THEN HasKey(summary.items, key)
    ELSE IF summary.t = "list"
         THEN \E n \in DOMAIN summary.items : summary.items[n] = PyStr(key)
    ELSE IsSubstring(summary.s, key)

\* all(key in summary for key in required_keys), with one name being enough
CompleteAny(summary) ==
    \E n \in DOMAIN required_keys : Contains(summary, required_keys[n])

\* line 147: all(key in summary for key in required_keys)
Complete(summary) ==
    \A n \in DOMAIN required_keys : Contains(summary, required_keys[n])

\* type(v).__name__
TypeName(v) == IF v.t = "none" THEN "NoneType" ELSE v.t

\* repr of d.keys()
KeysRepr(items) ==
    "dict_keys([" \o join(", ", [n \in DOMAIN items |-> "'" \o items[n][1] \o "'"])
                 \o "])"

\* an exception with its message
Failure(kind, msg) == [err |-> kind, val |-> None, msg |-> msg]
Success(v) == [err |-> "", val |-> v, msg |-> ""]

\* lines 145-150: the parsed value is returned when it holds the required keys
Validated(summary) ==
    IF summary.t \notin Containers
    THEN Failure("TypeError",
                 "argument of type '" \o TypeName(summary) \o "' is not iterable")
    ELSE IF Complete(summary) THEN Success(summary)
    ELSE IF summary.t = "dict"
         THEN Failure("ValueError",
                      "Missing required keys. Got: " \o KeysRepr(summary.items))
    ELSE Failure("AttributeError",
                 "'" \o TypeName(summary) \o "' object has no attribute 'keys'")

\* what ollama.chat gives: a response with its content, or an exception
Response(content) == [raised |-> "", content |-> content]
ChatError(kind, msg) == [raised |-> kind, content |-> msg]

Continue == [err |-> "continue", val |-> None, msg |-> ""]

FullText ==
    "{\"summary_heading\": \"S\", \"key_points\": [\"p\"], "
       \o "\"action_items\": [], \"decisions\": []}"
NamesText ==
    "[\"summary_heading\", \"key_points\", \"action_items\", \"decisions\"]"

\* what the model may answer
Replies ==
    { Response(FullText),
      Response(" " \o FullText \o "\n"),
      Response(Fence \o "json\n" \o FullText \o "\n" \o Fence),
      Response("Sure, here it is"),
      Response(Fence \o "\nnot json\n" \o Fence),
      Response("{\"summary_heading\": \"S\"}"),
      Response(NamesText),
      Response("5"),
      ChatError("ConnectionError", "down") }

\* the documents of these answers are parsed once
DocumentCache ==
    [text \in {Processed(reply.content) : reply \in Replies} |-> json_loads(text)]

\* line 143: json.loads(result_text)
Loaded(result_text) == Cached(DocumentCache, result_text, json_loads(result_text))

\* lines 116-164, one pass of the loop: the summary is returned, the next
\* attempt is made, or RuntimeError is raised
Attempt(reply, attempt, max_retries) ==
    IF reply.raised # ""
    THEN Failure("RuntimeError", "Summarization failed: " \o reply.content)
    ELSE LET result_text == Processed(reply.content)
             parsed      == Loaded(result_text)
             checked     == Validated(parsed.val)
         IN  IF parsed.err # ""
             THEN IF attempt < max_retries THEN Continue
                  ELSE Failure("RuntimeError",
                               "Failed to get valid JSON after "
                                  \o str(max_retries + 1)
                                  \o " attempts. Last response: " \o result_text)
             ELSE IF checked.err # ""
                  THEN Failure("RuntimeError",
                               "Summarization failed: " \o checked.msg)
             ELSE checked

\* line 111: not transcript or not transcript.strip()
Empty(transcript) == transcript = "" \/ strip(transcript) = ""

\* lines 111-115 and 167: what summarize does before the first call of the
\* model; "" when the loop is entered
Entered(transcript, max_retries) ==
    IF Empty(transcript) THEN Failure("ValueError", "Transcript cannot be empty")
    ELSE IF max_retries + 1 <= 0
         THEN Failure("RuntimeError",
                      "Summarization failed: exceeded maximum retries")
    ELSE Continue

\* lines 180-186
Fallback(msg) ==
    PyDict(<< <<"summary_heading", PyStr("Meeting Summary (Auto-generated)")>>,
              <<"key_points", PyList(<<PyStr("Full transcript available below")>>)>>,
              <<"action_items", PyList(<<>>)>>,
              <<"decisions", PyList(<<>>)>>,
              <<"error", PyStr(msg)>> >>)

\* lines 175-186: the result of summarize, or the fallback for its exception
summarize_with_fallback(result) ==
    IF result.err = "" THEN result ELSE Success(Fallback(result.msg))

\* line 95
DefaultRetries == 2

MaxRetries == 2
Retries == (0 - 1) .. MaxRetries
Transcripts == {"", " \n", "hi", "standup: ship on friday"}

\* the call has ended: the caller has its result
SummarizeEnd(c, call, responses, result) ==
    /\ frame' = [frame EXCEPT ![c] = Idle]
    /\ ret' = [ret EXCEPT ![c] =
                  LET r == IF call.fallback THEN summarize_with_fallback(result)
                           ELSE result
                  IN  [op |-> IF call.fallback THEN "summarize_with_fallback"
                              ELSE "summarize",
                       transcript |-> call.transcript,
                       max_retries |-> call.max_retries,
                       responses |-> responses, inner |-> result,
                       err |-> r.err, val |-> r.val, msg |-> r.msg]]

\* summarize(transcript, max_retries), or summarize_with_fallback(transcript)
\* when fallback, up to the first call of the model
SummarizeBegin(c, transcript, max_retries, fallback) ==
    LET call == [op |-> "summarize", transcript |-> transcript,
                 max_retries |-> max_retries, fallback |-> fallback,
                 attempt |-> 0, responses |-> <<>>]
        r    == Entered(transcript, max_retries)
    IN  /\ frame[c] = Idle
        /\ IF r = Continue
           THEN /\ frame' = [frame EXCEPT ![c] = call]
                /\ ret' = [ret EXCEPT ![c] = NoCall]
           ELSE SummarizeEnd(c, call, <<>>, r)
        /\ UNCHANGED <<db, saved, user>>

\* ollama.chat has answered: the rest of this pass of the loop
Chat(c, reply) ==
    LET call      == frame[c]
        responses == Append(call.responses, reply)
        r         == Attempt(reply, call.attempt, call.max_retries)
    IN  /\ call.op = "summarize"
        /\ IF r = Continue
           THEN /\ frame' = [frame EXCEPT ![c] =
                               [call EXCEPT !.attempt = call.attempt + 1,
                                            !.responses = responses]]
                /\ UNCHANGED ret
           ELSE SummarizeEnd(c, call, responses, r)
        /\ UNCHANGED <<db, saved, user>>

NextSumm ==
    \/ \E transcript \in Transcripts, max_retries \in Retries :
           SummarizeBegin(1, transcript, max_retries, FALSE)
    \/ \E transcript \in Transcripts :
           SummarizeBegin(1, transcript, DefaultRetries, TRUE)
    \/ \E reply \in Replies : Chat(1, reply)

\* every call of ollama.chat returns or raises
SpecSumm ==
    /\ InitSchema
    /\ [][NextSumm]_vars
    /\ WF_vars(\E reply \in Replies : Chat(1, reply))

\* the response has a content that json.loads accepts once it is stripped
\* and its fence removed
Parses(reply) ==
    /\ reply.raised = ""
    /\ Loaded(Processed(reply.content)).err = ""

\* the calls of ollama.chat a call of summarize has made and what came of it
SummarizeCalls == {"summarize", "summarize_with_fallback"}

C26_Bounded ==
    /\ frame[1].op = "summarize" =>
          /\ Len(frame[1].responses) = frame[1].attempt
          /\ frame[1].attempt <= frame[1].max_retries
          /\ \A n \in DOMAIN frame[1].responses : ~Parses(frame[1].responses[n])
    /\ ret[1].op \in SummarizeCalls =>
          LET responses == ret[1].responses
              calls     == Len(responses)
              result    == ret[1].inner
          IN  /\ calls <= ret[1].max_retries + 1
              /\ \A n \in 1 .. (calls - 1) :
                     responses[n].raised = "" /\ ~Parses(responses[n])
              /\ result.err = "" =>
                     /\ calls >= 1
                     /\ Parses(responses[calls])
                     /\ result.val
                          = Loaded(Processed(responses[calls].content)).val
                     /\ \A k \in DOMAIN required_keys :
                            Contains(result.val, required_keys[k])
              /\ (/\ calls >= 1
                  /\ calls = ret[1].max_retries + 1
                  /\ responses[calls].raised = ""
                  /\ ~Parses(responses[calls])) => result.err = "RuntimeError"

Structured(v) ==
    /\ v.t = "dict"
    /\ \A k \in DOMAIN required_keys : HasKey(v.items, required_keys[k])

\* summarize_with_fallback never raises, and gives the fallback, with no
\* action items, no decisions and the error, for every failure of summarize
FallbackOnFailure ==
    ret[1].op = "summarize_with_fallback" =>
        /\ ret[1].err = ""
        /\ ret[1].inner.err = "" => ret[1].val = ret[1].inner.val
        /\ ret[1].inner.err # "" =>
              /\ Structured(ret[1].val)
              /\ Get(ret[1].val.items, "action_items") = PyList(<<>>)
              /\ Get(ret[1].val.items, "decisions") = PyList(<<>>)
              /\ Get(ret[1].val.items, "error") = PyStr(ret[1].inner.msg)

\* C27: summarize_with_fallback never raises; for every transcript and every
\* outcome of summarize it returns a structure with summary_heading,
\* key_points, action_items and decisions: the result of summarize unchanged
\* on success, and on failure a fallback with empty action_items and decisions
\* and an error field.
C27_AlwaysStructured ==
    ret[1].op = "summarize_with_fallback" =>
        /\ FallbackOnFailure
        /\ Structured(ret[1].val)

\* summarize_with_fallback has returned a list: the model answered with the
\* array of the four names, which summarize accepted
C27_ListReturned ==
    /\ ret[1].op = "summarize_with_fallback"
    /\ ret[1].transcript = "hi"
    /\ ret[1].responses = <<Response(NamesText)>>
    /\ ret[1].err = ""
    /\ ret[1].val.t = "list"

====
